---- MODULE Spec2Model ----
(***************************************************************************)
(* Model of the annotation reconciliation and conversion engine:           *)
(*   src/Extract_Processing/data_processing_1128.py        (single tier)   *)
(*   src/Extract_Processing_Merge/data_processing_1212_merged.py (merged)  *)
(* and of the tools that run around it:                                    *)
(*   src/Setting_Processing/data_setting_1209.py        (get_file_name)    *)
(*   src/Extract_Processing/gcs_path_downloader_ver2.py (thread pool)      *)
(*   src/Extract_Processing/Run_Extracting_Pipeline.py  (pipeline runner)  *)
(*   src/Extract_Processing/csv_with_source_data.py     (name mapping)     *)
(*                                                                         *)
(* Conventions.  JSON values are tagged records: field t says what kind of *)
(* Python value json.load produced, so that the truthiness tests, the      *)
(* .get defaults and the exceptions of the code can be followed.           *)
(* Coordinates are integers counting tenths (5 stands for 0.5).            *)
(* Transcriptions and file names are sequences of one-character strings.   *)
(* The difficulty tags of the merged manifest are written "jung" and       *)
(* "sang" for the two Korean tags of the source.                           *)
(***************************************************************************)
EXTENDS Integers, Sequences, FiniteSets, TLC

VARIABLES
    conv_in,            \* arguments of one call of convert_result_json_to_xml
    conv_out,           \* its outcome: the image element, or an exception
    fmt_in,             \* the text handed to the output formatter passes
    fmt_out,            \* the text after each pass, first and second time
    tz_in,              \* argument of one call of add_timezone_to_datetime
    tz_out,             \* its return value
    name_in,            \* arguments of one call of get_file_name
    name_out,           \* its return value, or an exception
    filtered_files,     \* download_multiple_data: the files to download
    max_workers,        \* size of its thread pool
    futures,            \* state of the future submitted for each file
    yielded,            \* the futures as_completed has handed to the loop
    attempts,           \* how many times each file's download was started
    download,           \* position and counters of download_multiple_data
    user_input,         \* pipeline runner: how the project is given
    scripts,            \* what each script of its list does when run
    started,            \* the scripts it has started, in order
    pipeline,           \* position, counters and return value of its main
    matching_files,     \* download_and_map_source_data: the matching blobs
    tasks,              \* state of download_and_extract_data for each blob
    source_data_dict,   \* the dict the worker threads write to
    mapper,             \* position of the call and the file_name column
    program,            \* which program runs: "single" or "merged"
    env,                \* command line and files the run starts from
    df,                 \* the manifest rows; each row carries the documents
                        \* found on disk in the directories it is matched in
    pc,                 \* "main", "rows" or "exit"
    idx,                \* position of the next row of df.iterrows()
    meta,               \* size, created and updated of the output root
    root,               \* image children of the output root, once parsed
    processed_count,
    missing_files,
    written,            \* the output file has been written
    exit_code           \* process exit status, -1 while running

conv_vars == <<conv_in, conv_out>>
fmt_vars  == <<fmt_in, fmt_out>>
tz_vars   == <<tz_in, tz_out>>
name_vars == <<name_in, name_out>>
call_vars == <<conv_vars, fmt_vars, tz_vars, name_vars>>
dl_vars   == <<filtered_files, max_workers, futures, yielded, attempts,
               download>>
pipe_vars == <<user_input, scripts, started, pipeline>>
map_vars  == <<matching_files, tasks, source_data_dict, mapper>>
tool_vars == <<dl_vars, pipe_vars, map_vars>>
run_vars  == <<program, env, df, pc, idx, meta, root, processed_count,
               missing_files, written, exit_code>>
vars      == <<conv_in, conv_out, fmt_in, fmt_out, tz_in, tz_out, name_in,
               name_out, filtered_files, max_workers, futures, yielded,
               attempts, download, user_input, scripts, started, pipeline,
               matching_files, tasks, source_data_dict, mapper, program,
               env, df, pc, idx, meta, root, processed_count, missing_files,
               written, exit_code>>

(***************************************************************************)
(* Bounds                                                                  *)
(***************************************************************************)
MaxAnn == 2         \* longest annotation list in a Result Document
MaxRows == 2        \* longest manifest

(***************************************************************************)
(* JSON values                                                             *)
(***************************************************************************)
Num(n)     == [t |-> "num", n |-> n]
NullVal    == [t |-> "null", n |-> 0]
StrVal     == [t |-> "str", n |-> 0]
AbsentVal  == [t |-> "absent", n |-> 0]

\* dict.get(key, 0) on a numeric field: an absent key yields the default 0
get_num(v) == IF v.t = "absent" THEN Num(0) ELSE v

IsNumber(v) == v.t = "num"

Abs(n) == IF n < 0 THEN -n ELSE n

\* f"{round(v, 4):.4f}" for a value given in tenths
fmt4(n) ==
    (IF n < 0 THEN "-" ELSE "") \o ToString(Abs(n) \div 10) \o "."
        \o ToString(Abs(n) % 10) \o "000"

\* f"{round(x, 4):.4f},{round(y, 4):.4f}"
fmt_point(x, y) == fmt4(x.n) \o "," \o fmt4(y.n)

RECURSIVE join(_, _)
\* sep.join(strs)
join(sep, strs) ==
    IF strs = <<>> THEN ""
    ELSE IF Len(strs) = 1 THEN strs[1]
    ELSE strs[1] \o sep \o join(sep, Tail(strs))

(***************************************************************************)
(* Text                                                                    *)
(***************************************************************************)
Whitespace == {" ", "\t", "\n"}

\* text.replace(' ', '')
remove_spaces(s) == SelectSeq(s, LAMBDA c : c # " ")

RECURSIVE lstrip(_)
lstrip(s) ==
    IF s # <<>> /\ Head(s) \in Whitespace THEN lstrip(Tail(s)) ELSE s

RECURSIVE rstrip(_)
rstrip(s) ==
    IF s # <<>> /\ s[Len(s)] \in Whitespace
    THEN rstrip(SubSeq(s, 1, Len(s) - 1)) ELSE s

\* str.strip()
strip(s) == rstrip(lstrip(s))

escape_char(c) ==
    CASE c = "&"  -> <<"&", "a", "m", "p", ";">>
      [] c = "<"  -> <<"&", "l", "t", ";">>
      [] c = ">"  -> <<"&", "g", "t", ";">>
      [] c = "\"" -> <<"&", "q", "u", "o", "t", ";">>
      [] c = "'"  -> <<"&", "a", "p", "o", "s", ";">>
      [] OTHER    -> <<c>>

RECURSIVE escape_str(_)
escape_str(s) ==
    IF s = <<>> THEN <<>> ELSE escape_char(Head(s)) \o escape_str(Tail(s))

RECURSIVE digits(_)
\* str(n) as characters, n >= 0
digits(n) ==
    LET d == <<"0", "1", "2", "3", "4", "5", "6", "7", "8", "9">>[(n % 10) + 1]
    IN  IF n < 10 THEN <<d>> ELSE Append(digits(n \div 10), d)

\* Python truthiness of a transcription value
text_truthy(v) ==
    CASE v.t = "str"  -> v.s # <<>>
      [] v.t = "num"  -> v.n # 0
      [] v.t = "list" -> TRUE
      [] OTHER        -> FALSE

\* str(text) of a transcription value
text_str(v) ==
    CASE v.t = "str"  -> v.s
      [] v.t = "num"  -> digits(v.n)
      [] v.t = "list" -> <<"[", "0", "]">>
      [] OTHER        -> <<"N", "o", "n", "e">>

\* escape_xml_text(text)
escape_xml_text(v) ==
    IF ~text_truthy(v) THEN <<>> ELSE escape_str(text_str(v))

(***************************************************************************)
(* Transcription values (the value under the text key of a record)         *)
(***************************************************************************)
Str(s)     == [t |-> "str", s |-> s, n |-> 0]
TNum(n)    == [t |-> "num", s |-> <<>>, n |-> n]
TNull      == [t |-> "null", s |-> <<>>, n |-> 0]
TList      == [t |-> "list", s |-> <<>>, n |-> 0]
TAbsent    == [t |-> "absent", s |-> <<>>, n |-> 0]

EmptyToken == <<"e", "m", "p", "t", "y">>

\* annotation.get(text_key, '') followed by the space removal applied to
\* strings only
text_value_of(ocr) ==
    LET got == IF ocr.t = "absent" THEN Str(<<>>) ELSE ocr
    IN  IF got.t = "str" THEN Str(remove_spaces(got.s)) ELSE got

\* text_value == 'empty'
is_empty_token(v) == v.t = "str" /\ v.s = EmptyToken

\* single tier: label, and the attribute children, of a retained record
classify_single(text_value) ==
    [raised |-> FALSE,
     label  |-> IF is_empty_token(text_value) THEN "empty" ELSE "text",
     attribute |->
        IF ~is_empty_token(text_value)
        THEN <<[name |-> "text", text |-> escape_xml_text(text_value)]>>
        ELSE <<>>]

\* merged: text_value and text_value.strip() and text_value != 'empty'
classify_merged(text_value) ==
    IF ~text_truthy(text_value)
    THEN [raised |-> FALSE, label |-> "empty", attribute |-> <<>>]
    ELSE IF text_value.t # "str"
    THEN [raised |-> TRUE, label |-> "", attribute |-> <<>>]
    ELSE IF strip(text_value.s) # <<>> /\ ~is_empty_token(text_value)
    THEN [raised |-> FALSE, label |-> "text",
          attribute |-> <<[name |-> "text",
                           text |-> escape_xml_text(text_value)]>>]
    ELSE [raised |-> FALSE, label |-> "empty", attribute |-> <<>>]

classify(variant, text_value) ==
    IF variant = "single" THEN classify_single(text_value)
    ELSE classify_merged(text_value)

(***************************************************************************)
(* Geometry                                                                *)
(***************************************************************************)
NoPoints   == [raised |-> FALSE, points |-> <<>>]
RaisedPts  == [raised |-> TRUE, points |-> <<>>]
Pts(p)     == [raised |-> FALSE, points |-> p]

\* Python truthiness of a dict-valued field
dict_truthy(d) == d.t \in {"dict", "str"}

\* one corner or polygon point: point.get('x', 0), point.get('y', 0), format
point_ok(p) ==
    /\ p.t = "dict"
    /\ IsNumber(get_num(p.x))
    /\ IsNumber(get_num(p.y))

point_str(p) == fmt_point(get_num(p.x), get_num(p.y))

RECURSIVE points_in_order(_)
\* formats the points one after the other; the first bad one raises
points_in_order(ps) ==
    IF ps = <<>> THEN Pts(<<>>)
    ELSE IF ~point_ok(Head(ps)) THEN RaisedPts
    ELSE LET rest == points_in_order(Tail(ps))
         IN  IF rest.raised THEN RaisedPts
             ELSE Pts(<<point_str(Head(ps))>> \o rest.points)

\* the named corners, tl > tr > br > bl
corner_points(coords) ==
    IF coords.t # "dict" THEN RaisedPts
    ELSE IF /\ dict_truthy(coords.tl) /\ dict_truthy(coords.tr)
            /\ dict_truthy(coords.br) /\ dict_truthy(coords.bl)
    THEN points_in_order(<<coords.tl, coords.tr, coords.br, coords.bl>>)
    ELSE NoPoints

box_corners_swapped(left, top, width, height) ==
    <<fmt_point(left, top),
      fmt_point(Num(left.n), Num(top.n + height.n)),
      fmt_point(Num(left.n + width.n), Num(top.n + height.n)),
      fmt_point(Num(left.n + width.n), top)>>

\* the four corners synthesized from left/top/width/height
box_corners(left, top, width, height) ==
    <<fmt_point(left, top),
      fmt_point(Num(left.n + width.n), top),
      fmt_point(Num(left.n + width.n), Num(top.n + height.n)),
      fmt_point(Num(left.n), Num(top.n + height.n))>>

object_points_nonneg(obj) ==
    IF ~dict_truthy(obj) THEN NoPoints
    ELSE IF obj.t # "dict" THEN RaisedPts
    ELSE LET left   == get_num(obj.left)
             top    == get_num(obj.top)
             width  == get_num(obj.width)
             height == get_num(obj.height)
         IN  IF ~IsNumber(width) THEN RaisedPts
             ELSE IF ~(width.n >= 0) THEN NoPoints
             ELSE IF ~IsNumber(height) THEN RaisedPts
             ELSE IF ~(height.n >= 0) THEN NoPoints
             ELSE IF ~IsNumber(left) \/ ~IsNumber(top) THEN RaisedPts
             ELSE Pts(box_corners(left, top, width, height))

\* the object box, used when coords is absent or empty
object_points(obj) ==
    IF ~dict_truthy(obj) THEN NoPoints
    ELSE IF obj.t # "dict" THEN RaisedPts
    ELSE LET left   == get_num(obj.left)
             top    == get_num(obj.top)
             width  == get_num(obj.width)
             height == get_num(obj.height)
         IN  IF ~IsNumber(width) THEN RaisedPts
             ELSE IF ~(width.n > 0) THEN NoPoints
             ELSE IF ~IsNumber(height) THEN RaisedPts
             ELSE IF ~(height.n > 0) THEN NoPoints
             ELSE IF ~IsNumber(left) \/ ~IsNumber(top) THEN RaisedPts
             ELSE Pts(box_corners(left, top, width, height))

box_points_object_first(annotation) ==
    IF dict_truthy(annotation.object)
    THEN object_points(annotation.object)
    ELSE corner_points(annotation.coords)

\* BOX: coords when it is truthy, else the object box
box_points(annotation) ==
    IF dict_truthy(annotation.coords)
    THEN corner_points(annotation.coords)
    ELSE object_points(annotation.object)

polygon_points_reversed(annotation) ==
    IF annotation.points.t = "list" /\ annotation.points.items # <<>>
    THEN LET ps == annotation.points.items
         IN  points_in_order([k \in 1..Len(ps) |-> ps[Len(ps) + 1 - k]])
    ELSE NoPoints

\* POLYGONS: the points in the order of the JSON
polygon_points(annotation) ==
    IF annotation.points.t = "list" /\ annotation.points.items # <<>>
    THEN points_in_order(annotation.points.items)
    ELSE NoPoints

\* the points of one annotation record
annotation_points(annotation) ==
    IF annotation.t # "dict" THEN RaisedPts
    ELSE IF annotation.annotation = "BOX" THEN box_points(annotation)
    ELSE IF annotation.annotation = "POLYGONS"
    THEN polygon_points(annotation)
    ELSE NoPoints

(***************************************************************************)
(* convert_result_json_to_xml                                              *)
(***************************************************************************)
NoElem == [id |-> "", name |-> <<>>, width |-> "", height |-> "",
           polygons |-> <<>>]
Raised == [raised |-> TRUE, elem |-> NoElem]
Returns(e) == [raised |-> FALSE, elem |-> e]

image_id_attr_off_by_one(image_id) == ToString(image_id)

\* image_elem.set('id', str(image_id - 1))
image_id_attr(image_id) == ToString(image_id - 1)

\* str(width), str(height)
dim_str(v) ==
    CASE v.t = "num"  -> ToString(v.n)
      [] v.t = "null" -> "None"
      [] OTHER        -> "abc"

\* width and height from images[0].convertedImageInfo, 0 by default
image_dims(source_json_data) ==
    LET images == source_json_data.images
    IN  IF source_json_data.t \notin {"dict", "empty"} THEN [raised |-> TRUE]
        ELSE IF ~(images.t = "list" /\ images.items # <<>>)
        THEN [raised |-> FALSE, width |-> Num(0), height |-> Num(0)]
        ELSE IF images.items[1].t # "dict" THEN [raised |-> TRUE]
        ELSE LET info == images.items[1].info
             IN  IF info.t = "absent"
                 THEN [raised |-> FALSE, width |-> Num(0), height |-> Num(0)]
                 ELSE IF info.t # "dict" THEN [raised |-> TRUE]
                 ELSE [raised |-> FALSE, width |-> get_num(info.width),
                       height |-> get_num(info.height)]

coord_key_one_tier(variant, difficulty) == "name_5OJYEV"

\* the annotation-list key read by each variant and difficulty
coord_key(variant, difficulty) ==
    IF variant = "merged" /\ difficulty = "jung" THEN "name_RRMP0X"
    ELSE "name_5OJYEV"

has_key_assumed(cell, key) == TRUE

\* 'key in annotations' and annotations[key]
has_key(cell, key) ==
    IF key = "name_RRMP0X" THEN cell.name_RRMP0X.t # "absent"
    ELSE cell.name_5OJYEV.t # "absent"

lookup(cell, key) ==
    IF key = "name_RRMP0X" THEN cell.name_RRMP0X ELSE cell.name_5OJYEV

next_z_order_always(z_order, points) == z_order + 1

\* z_order += 1 happens inside 'if points:' only
next_z_order(z_order, points) ==
    IF points # <<>> THEN z_order + 1 ELSE z_order

RECURSIVE annotation_loop(_, _, _, _)
\* for annotation in annotation_list: ... ; yields the polygon children
annotation_loop(variant, annotation_list, z_order, polygons) ==
    IF annotation_list = <<>>
    THEN [raised |-> FALSE, polygons |-> polygons]
    ELSE
      LET annotation == Head(annotation_list)
          pts        == annotation_points(annotation)
      IN  IF pts.raised THEN [raised |-> TRUE, polygons |-> <<>>]
          ELSE IF pts.points = <<>>
          THEN annotation_loop(variant, Tail(annotation_list),
                               next_z_order(z_order, pts.points), polygons)
          ELSE
            LET cls == classify(variant, text_value_of(annotation.ocr))
                polygon_elem ==
                    [label     |-> cls.label,
                     source    |-> "file",
                     occluded  |-> "0",
                     z_order   |-> ToString(z_order),
                     points    |-> join(";", pts.points),
                     attribute |-> cls.attribute]
            IN  IF cls.raised THEN [raised |-> TRUE, polygons |-> <<>>]
                ELSE annotation_loop(variant, Tail(annotation_list),
                                     next_z_order(z_order, pts.points),
                                     Append(polygons, polygon_elem))

\* the polygon children built from the Result Document
image_polygons(variant, result_json_data, difficulty) ==
    LET results == result_json_data.results
        Nothing == [raised |-> FALSE, polygons |-> <<>>]
        Fails   == [raised |-> TRUE, polygons |-> <<>>]
    IN  IF result_json_data.t \notin {"dict", "empty"} THEN Fails
        ELSE IF results.t # "list" \/ Len(results.rows) < 2 THEN Nothing
        ELSE
          LET data_row == results.rows[2]
          IN  IF data_row.t # "list" THEN Fails
              ELSE IF data_row.cells = <<>> THEN Nothing
              ELSE
                LET annotations == data_row.cells[1]
                    key == coord_key(variant, difficulty)
                IN  IF annotations.t # "dict" THEN Nothing
                    ELSE IF ~has_key(annotations, key) THEN Nothing
                    ELSE IF lookup(annotations, key).t # "list" THEN Fails
                    ELSE annotation_loop(variant,
                            lookup(annotations, key).items, 0, <<>>)

convert_result_json_to_xml(variant, result_json_data, image_id, image_name, source_json_data, difficulty) ==
    LET dims  == image_dims(source_json_data)
        polys == image_polygons(variant, result_json_data, difficulty)
    IN  IF dims.raised \/ polys.raised THEN Raised
        ELSE Returns([id       |-> image_id_attr(image_id),
                      name     |-> escape_xml_text(Str(image_name)),
                      width    |-> dim_str(dims.width),
                      height   |-> dim_str(dims.height),
                      polygons |-> polys.polygons])

(***************************************************************************)
(* Input documents                                                         *)
(***************************************************************************)
P(x, y)       == [t |-> "dict", x |-> Num(x), y |-> Num(y)]
BadPoint      == [t |-> "dict", x |-> StrVal, y |-> Num(0)]
HalfPoint     == [t |-> "dict", x |-> AbsentVal, y |-> Num(7)]
NoCorner      == [t |-> "absent", x |-> AbsentVal, y |-> AbsentVal]

NoCornerSet   == [tl |-> NoCorner, tr |-> NoCorner, br |-> NoCorner,
                  bl |-> NoCorner]
CoordsAbsent  == [t |-> "absent"] @@ NoCornerSet
CoordsEmpty   == [t |-> "empty"] @@ NoCornerSet
CoordsNull    == [t |-> "null"] @@ NoCornerSet
Corners(tl, tr, br, bl) ==
    [t |-> "dict", tl |-> tl, tr |-> tr, br |-> br, bl |-> bl]
FullCorners   == Corners(P(10, 10), P(55, 10), P(55, 30), P(10, 30))
PartCorners   == Corners(P(10, 10), P(55, 10), NoCorner, NoCorner)
SkewCorners   == Corners(P(12, 8), P(50, 14), P(53, 33), P(9, 27))

NoBoxFields   == [left |-> AbsentVal, top |-> AbsentVal,
                  width |-> AbsentVal, height |-> AbsentVal]
ObjectAbsent  == [t |-> "absent"] @@ NoBoxFields
Box(l, tp, w, h) ==
    [t |-> "dict", left |-> l, top |-> tp, width |-> w, height |-> h]

PointsAbsent  == [t |-> "absent", items |-> <<>>]
PointList(ps) == [t |-> "list", items |-> ps]

Record(kind, coords, obj, pts, ocr) ==
    [t |-> "dict", annotation |-> kind, coords |-> coords, object |-> obj,
     points |-> pts, ocr |-> ocr]
NonDictRecord ==
    [t |-> "str", annotation |-> "", coords |-> CoordsAbsent,
     object |-> ObjectAbsent, points |-> PointsAbsent, ocr |-> TAbsent]

BoxOf(coords, obj, ocr) == Record("BOX", coords, obj, PointsAbsent, ocr)
PolyOf(ps, ocr) ==
    Record("POLYGONS", CoordsAbsent, ObjectAbsent, PointList(ps), ocr)

GoodBoxes ==
    { Box(Num(0), Num(0), Num(100), Num(200)),
      Box(Num(5), Num(-15), Num(25), Num(35)),
      Box(AbsentVal, AbsentVal, Num(10), Num(10)) }
BadBoxes ==
    { Box(Num(0), Num(0), Num(0), Num(200)),
      Box(Num(0), Num(0), Num(100), Num(-5)),
      Box(Num(0), Num(0), AbsentVal, Num(200)) }
RaisingBoxes ==
    { Box(Num(0), Num(0), StrVal, Num(200)),
      Box(NullVal, Num(0), Num(100), Num(200)) }

TheBox  == Box(Num(0), Num(0), Num(100), Num(200))
TheText == Str(<<"h", " ", "g">>)

\* the geometry cases, all with the same transcription
Geometries ==
    { BoxOf(c, b, TheText) : c \in {CoordsAbsent, CoordsEmpty, CoordsNull},
                             b \in GoodBoxes }
    \cup { BoxOf(CoordsAbsent, b, TheText) :
             b \in BadBoxes \cup RaisingBoxes \cup {ObjectAbsent} }
    \cup { BoxOf(c, b, TheText) : c \in {FullCorners, PartCorners},
                                  b \in {TheBox, ObjectAbsent} }
    \cup { BoxOf(c, b, TheText) :
             c \in {FullCorners, SkewCorners},
             b \in GoodBoxes \cup BadBoxes \cup RaisingBoxes }
    \cup { PolyOf(ps, TheText) :
             ps \in { <<P(10, 10), P(20, 20)>>,
                      <<P(20, 20), P(10, 10), P(20, 20)>>,
                      <<P(30, 5), HalfPoint>>,
                      <<>>,
                      <<P(10, 10), BadPoint>> } }
    \cup { Record("OTHER", CoordsAbsent, TheBox, PointsAbsent, TheText),
           NonDictRecord }

Transcriptions ==
    { TAbsent, TNull, TNum(5), TNum(0), TList,
      Str(<<>>), Str(<<" ">>), Str(<<"\t">>),
      Str(EmptyToken), Str(<<"e", " ", "m", "p", "t", "y">>),
      Str(<<" ">> \o EmptyToken), Str(<<"\t">> \o EmptyToken),
      Str(<<"h", " ", "g">>), Str(<<"a", "<", "b">>),
      Str(<<"h", "\t", "g">>) }

\* the transcription cases, all on the same box
Texts == { BoxOf(CoordsAbsent, TheBox, o) : o \in Transcriptions }

Records == Geometries \cup Texts

\* the records that longer lists are made of
ListRecords ==
    { BoxOf(CoordsAbsent, TheBox, TheText),
      BoxOf(CoordsAbsent, TheBox, Str(<<>>)),
      BoxOf(CoordsAbsent, TheBox, Str(EmptyToken)),
      BoxOf(PartCorners, TheBox, TheText),
      BoxOf(FullCorners, ObjectAbsent, TheText),
      BoxOf(CoordsAbsent, Box(Num(0), Num(0), Num(0), Num(200)), TheText),
      PolyOf(<<P(20, 20), P(10, 10), P(20, 20)>>, TheText),
      PolyOf(<<>>, TheText),
      NonDictRecord }

SeqsUpTo(S, n) == UNION { [1..k -> S] : k \in 0..n }

AnnotationLists ==
    SeqsUpTo(ListRecords, MaxAnn) \cup { <<r>> : r \in Records }

ListAbsent    == [t |-> "absent", items |-> <<>>]
ListNull      == [t |-> "null", items |-> <<>>]
ListOf(l)     == [t |-> "list", items |-> l]

Cell(l5, lR)  == [t |-> "dict", name_5OJYEV |-> l5, name_RRMP0X |-> lR]
NullCell      == [t |-> "null", name_5OJYEV |-> ListAbsent,
                  name_RRMP0X |-> ListAbsent]
StrCell       == [t |-> "str", name_5OJYEV |-> ListAbsent,
                  name_RRMP0X |-> ListAbsent]

Header        == [t |-> "list", cells |-> <<>>]
RowOf(cells)  == [t |-> "list", cells |-> cells]
NullRow       == [t |-> "null", cells |-> <<>>]

ResultsAbsent == [t |-> "absent", rows |-> <<>>]
ResultsNull   == [t |-> "null", rows |-> <<>>]
ResultsOf(rs) == [t |-> "list", rows |-> rs]

ResultDoc(results) == [t |-> "dict", results |-> results]
EmptyDoc      == [t |-> "empty", results |-> ResultsAbsent]
Unparsable    == [t |-> "unparsable", results |-> ResultsAbsent]
ArrayDoc      == [t |-> "list", results |-> ResultsAbsent]

DocWith(cell) == ResultDoc(ResultsOf(<<Header, RowOf(<<cell>>)>>))

\* Result Documents without a usable annotation list
ShortDocs ==
    { ResultDoc(ResultsAbsent), ResultDoc(ResultsNull),
      ResultDoc(ResultsOf(<<>>)), ResultDoc(ResultsOf(<<Header>>)) }
NullPayloadDocs ==
    { DocWith(NullCell), ResultDoc(ResultsOf(<<Header, RowOf(<<>>)>>)) }
KeylessDocs ==
    { DocWith(Cell(ListAbsent, ListAbsent)), DocWith(StrCell) }
RaisingDocs ==
    { ResultDoc(ResultsOf(<<Header, NullRow>>)),
      DocWith(Cell(ListNull, ListNull)) }

Info(w, h)    == [t |-> "dict", width |-> w, height |-> h]
InfoAbsent    == [t |-> "absent", width |-> AbsentVal, height |-> AbsentVal]
InfoNull      == [t |-> "null", width |-> AbsentVal, height |-> AbsentVal]
Image(info)   == [t |-> "dict", info |-> info]
NonDictImage  == [t |-> "str", info |-> InfoAbsent]

ImagesAbsent  == [t |-> "absent", items |-> <<>>]
ImagesNull    == [t |-> "null", items |-> <<>>]
ImagesOf(is)  == [t |-> "list", items |-> is]

SourceDoc(images) == [t |-> "dict", images |-> images]
EmptySource   == [t |-> "empty", images |-> ImagesAbsent]
BadSource     == [t |-> "unparsable", images |-> ImagesAbsent]
ArraySource   == [t |-> "list", images |-> ImagesAbsent]

GoodSource    == SourceDoc(ImagesOf(<<Image(Info(Num(640), Num(480)))>>))
DimlessSources ==
    { SourceDoc(ImagesAbsent), SourceDoc(ImagesNull),
      SourceDoc(ImagesOf(<<>>)), SourceDoc(ImagesOf(<<Image(InfoAbsent)>>)),
      SourceDoc(ImagesOf(<<Image(Info(AbsentVal, Num(480)))>>)) }
OddSources ==
    { SourceDoc(ImagesOf(<<Image(Info(StrVal, Num(480)))>>)),
      SourceDoc(ImagesOf(<<Image(Info(NullVal, NullVal))>>)) }
RaisingSources ==
    { SourceDoc(ImagesOf(<<Image(InfoNull)>>)),
      SourceDoc(ImagesOf(<<NonDictImage>>)), ArraySource }

(***************************************************************************)
(* The manifest and the directories                                        *)
(***************************************************************************)
RECURSIVE replace(_, _, _)
\* s.replace(old, new)
replace(s, old, new) ==
    IF Len(s) < Len(old) \/ old = <<>> THEN s
    ELSE IF SubSeq(s, 1, Len(old)) = old
    THEN new \o replace(SubSeq(s, Len(old) + 1, Len(s)), old, new)
    ELSE <<Head(s)>> \o replace(Tail(s), old, new)

DotJson  == <<".", "j", "s", "o", "n">>
DotJpg   == <<".", "j", "p", "g">>
DotJPG   == <<".", "J", "P", "G">>

\* the file_name cell as pandas hands it over
PlainCell(name) == [t |-> "plain", name |-> name]   \* a.jpg
JsonCell(name)  == [t |-> "json", name |-> name]    \* {"file_name": "a.jpg"}
KeylessCell     == [t |-> "json", name |-> <<>>]    \* {"other": 1}
NanCell         == [t |-> "nan", name |-> <<>>]     \* blank cell

\* extract_filename_from_csv: [t |-> "str"] a string, [t |-> "nan"] the
\* float the cell held when json.loads raised on it
extract_filename_from_csv(file_name_str) ==
    IF file_name_str.t = "nan" THEN [t |-> "nan", name |-> <<>>]
    ELSE [t |-> "str", name |-> file_name_str.name]

\* 'not actual_filename'
no_filename(actual_filename) ==
    actual_filename.t = "str" /\ actual_filename.name = <<>>

source_json_filename_unchanged(v, name) == name

\* the Source Document's name derived from the image name
source_json_filename(v, name) ==
    IF v = "single"
    THEN replace(replace(name, DotJPG, DotJson), DotJpg, DotJson)
    ELSE replace(name, DotJpg, DotJson)

AbsentDoc     == [t |-> "absent", results |-> ResultsAbsent]
AbsentSource  == [t |-> "absent", images |-> ImagesAbsent]

\* load_json_data: None when the file does not parse
load_json_data(doc) ==
    IF doc.t = "unparsable" THEN [doc EXCEPT !.t = "none"] ELSE doc

\* 'not json_data'
json_falsy(doc) == doc.t \in {"none", "empty"}

\* f"{data_idx}_result" and f"{data_idx}_result_{difficulty}"
result_entry(v, row) ==
    digits(row.data_idx) \o <<"_", "r", "e", "s", "u", "l", "t">>
      \o (IF v = "single" THEN <<>> ELSE <<"_">> \o <<row.difficulty>>)

\* int(image_elem.get('width', 0)), int(image_elem.get('height', 0))
int_parses(str) == str \notin {"None", "abc"}

Outcome(kind, missing, elem) ==
    [kind |-> kind, missing |-> missing, elem |-> elem]

image_id_of_count(i, count) == count + 1

\* image_id passed to the conversion: idx + 1
image_id_of(i, count) == i + 1

\* result_json_dir and source_json_dir: the pair of directories the tag
\* selects in the merged program ("jung" hard, "sang" very hard); the
\* single-tier program has one pair
selected_dirs(v, difficulty) ==
    IF v = "merged" /\ difficulty = "jung" THEN "jung" ELSE "sang"

\* the documents of the row found in a pair of directories: res and src in
\* the pair of the row's own tag, other_res and other_src in the other pair
documents_in(v, row, dirs) ==
    IF v = "single" \/ dirs = row.difficulty
    THEN [res |-> row.res, src |-> row.src]
    ELSE [res |-> row.other_res, src |-> row.other_src]

\* one iteration of 'for idx, row in df.iterrows()'
row_step(v, e, row, i, count) ==
    LET actual_filename == extract_filename_from_csv(row.file_name)
        found   == documents_in(v, row, selected_dirs(v, row.difficulty))
        res     == found.res
        src     == found.src
        sname   == source_json_filename(v, actual_filename.name)
        result_json_data == load_json_data(res)
        source_json_data == load_json_data(src)
        conv    == convert_result_json_to_xml(v, result_json_data,
                       image_id_of(i, count), actual_filename.name,
                       source_json_data, row.difficulty)
    IN  IF no_filename(actual_filename)
        THEN Outcome("skipped", <<>>, NoElem)
        ELSE IF v = "merged" /\ row.difficulty \notin {"jung", "sang"}
        THEN Outcome("skipped", <<>>, NoElem)
        ELSE IF ~e.result_dir
        THEN Outcome("raised", <<>>, NoElem)
        ELSE IF res.t = "absent"
        THEN Outcome("missing", <<result_entry(v, row)>>, NoElem)
        ELSE IF actual_filename.t = "nan"
        THEN Outcome("raised", <<>>, NoElem)
        ELSE IF ~e.source_dir \/ src.t = "absent" \/ sname # row.json_name
        THEN Outcome("missing", <<sname>>, NoElem)
        ELSE IF json_falsy(result_json_data) \/ json_falsy(source_json_data)
        THEN Outcome("skipped", <<>>, NoElem)
        ELSE IF conv.raised
        THEN Outcome("raised", <<>>, NoElem)
        ELSE IF v = "merged" /\ ~(int_parses(conv.elem.width)
                                  /\ int_parses(conv.elem.height))
        THEN Outcome("raised", <<>>, NoElem)
        ELSE Outcome("converted", <<>>, conv.elem)

(***************************************************************************)
(* add_timezone_to_datetime.  A date-time value is the string the manifest *)
(* holds, kept as its fields: the numbers between the separators, the      *)
(* separator between date and time, and what follows the seconds.          *)
(***************************************************************************)
MaxYear == 2025     \* last year of the manifest dates

pad2(n) == IF n < 10 THEN "0" \o ToString(n) ELSE ToString(n)

DateTime(y, mo, d, sep, h, mi, sec) ==
    [t |-> "str", shape |-> "full", y |-> y, mo |-> mo, d |-> d, sep |-> sep,
     h |-> h, mi |-> mi, sec |-> sec, tail |-> ""]

\* a cell without a value: pandas reads it as the float nan
NaN == [t |-> "nan", shape |-> "", y |-> 0, mo |-> 0, d |-> 0, sep |-> "",
        h |-> 0, mi |-> 0, sec |-> 0, tail |-> ""]

date_str(v) == ToString(v.y) \o "-" \o pad2(v.mo) \o "-" \o pad2(v.d)

time_str(v) == pad2(v.h) \o ":" \o pad2(v.mi) \o ":" \o pad2(v.sec)

\* the text of a date-time value
as_text(v) ==
    CASE v.shape = "empty" -> ""
      [] v.shape = "date"  -> date_str(v)
      [] OTHER             -> date_str(v) \o v.sep \o time_str(v) \o v.tail

is_leap(y) == (y % 4 = 0 /\ y % 100 # 0) \/ y % 400 = 0

days_in_month(y, mo) ==
    CASE mo \in {4, 6, 9, 11} -> 30
      [] mo = 2               -> IF is_leap(y) THEN 29 ELSE 28
      [] OTHER                -> 31

\* datetime.strptime(datetime_str, '%Y-%m-%d<sep>%H:%M:%S') does not raise
strptime_ok(v, sep) ==
    /\ v.t = "str"
    /\ v.shape = "full"
    /\ v.sep = sep
    /\ v.tail = ""
    /\ v.mo \in 1..12
    /\ v.d \in 1..days_in_month(v.y, v.mo)
    /\ v.h \in 0..23
    /\ v.mi \in 0..59
    /\ v.sec \in 0..59

previous_day_same_month(y, mo, d) ==
    IF d > 1 THEN [y |-> y, mo |-> mo, d |-> d - 1]
    ELSE [y |-> y, mo |-> mo, d |-> days_in_month(y, mo)]

\* the calendar day before y-mo-d
previous_day(y, mo, d) ==
    IF d > 1 THEN [y |-> y, mo |-> mo, d |-> d - 1]
    ELSE IF mo > 1
    THEN [y |-> y, mo |-> mo - 1, d |-> days_in_month(y, mo - 1)]
    ELSE [y |-> y - 1, mo |-> 12, d |-> 31]

\* dt - timedelta(hours=9)
minus_9_hours(dt) ==
    IF dt.h >= 9 THEN [dt EXCEPT !.h = @ - 9]
    ELSE LET p == previous_day(dt.y, dt.mo, dt.d)
         IN  [dt EXCEPT !.y = p.y, !.mo = p.mo, !.d = p.d, !.h = @ + 15]

\* utc_dt.strftime('%Y-%m-%d %H:%M:%S+09:00')
strftime(dt) == date_str(dt) \o " " \o time_str(dt) \o "+09:00"

TzStr(str) == [t |-> "str", s |-> str]
TzNaN      == [t |-> "nan", s |-> ""]

\* the first format, then the other one, then the value as it came
add_timezone_to_datetime(datetime_str) ==
    IF strptime_ok(datetime_str, "T")
    THEN TzStr(strftime(minus_9_hours(datetime_str)))
    ELSE IF strptime_ok(datetime_str, " ")
    THEN TzStr(strftime(minus_9_hours(datetime_str)))
    ELSE IF datetime_str.t = "nan" THEN TzNaN
    ELSE TzStr(as_text(datetime_str))

(***************************************************************************)
(* The summary fields of the output root: size, created, updated           *)
(***************************************************************************)
\* datetime.now() of the run, already formatted
Now == TzStr("2026-01-05 10:00:00+09:00")

\* df['work_edate'] and df['check_edate'], in row order
work_edate(rows)  == [i \in 1..Len(rows) |-> rows[i].work_edate]
check_edate(rows) == [i \in 1..Len(rows) |-> rows[i].check_edate]

\* .replace('', pd.NA).dropna(): read_csv has made nan of the empty cells
dropna(column) == SelectSeq(column, LAMBDA v : v.t # "nan")

\* what string comparison goes by, for strings of one length
sort_key(v) ==
    <<v.y, v.mo, v.d, IF v.sep = "T" THEN 1 ELSE 0, v.h, v.mi, v.sec>>

str_leq(a, b) ==
    \/ sort_key(a) = sort_key(b)
    \/ \E k \in 1..7 :
         /\ sort_key(a)[k] < sort_key(b)[k]
         /\ \A m \in 1..(k - 1) : sort_key(a)[m] = sort_key(b)[m]

\* Series.max() of a column of strings
series_max(column) ==
    CHOOSE v \in { column[i] : i \in 1..Len(column) } :
        \A i \in 1..Len(column) : str_leq(column[i], v)

\* a column that holds strings and nan: comparing a str with a float raises
\* in the pandas versions that keep such a column as objects, the versions
\* with a string dtype skip the nan
max_may_raise(column) == dropna(column) # <<>> /\ dropna(column) # column

\* single tier: df[...].max(), nan for a column without a string
latest_date(column) ==
    IF dropna(column) = <<>> THEN NaN ELSE series_max(dropna(column))

\* created_date and updated_date of each program
summary_date(v, column) ==
    IF v = "single" THEN add_timezone_to_datetime(latest_date(column))
    ELSE IF Len(dropna(column)) > 0
    THEN add_timezone_to_datetime(series_max(dropna(column)))
    ELSE Now

size_text_of_named_rows(rows) ==
    ToString(Cardinality({ i \in 1..Len(rows) :
                             rows[i].file_name.t # "nan" }))

\* size_elem.text = str(len(df))
size_text(rows) == ToString(Len(rows))

\* ET.tostring raises on a text that is not a string
serializable(m) == m.created.t = "str" /\ m.updated.t = "str"

(***************************************************************************)
(* The output formatter passes: fix_empty_tags and remove_empty_lines.     *)
(* A text is a sequence of one-character strings, "\n" between its lines.  *)
(***************************************************************************)
MaxLines == 3       \* most lines of a formatted text

\* the characters of the texts that \w matches
WordChars == {"a", "b", "t", "x", "_", "1"}

index_of(s, c) ==
    IF \E k \in 1..Len(s) : s[k] = c
    THEN CHOOSE k \in 1..Len(s) : s[k] = c /\ \A m \in 1..(k - 1) : s[m] # c
    ELSE 0

\* the longest run of \w characters that starts at s[2]
name_end(s) ==
    CHOOSE k \in 1..Len(s) :
        /\ \A m \in 2..k : s[m] \in WordChars
        /\ k = Len(s) \/ s[k + 1] \notin WordChars

\* length of the match of <(\w+)([^>]*?)/> at the head of s, 0 for none:
\* "<", a word character, and "/" right before the first ">"
match_length(s) ==
    LET gt == index_of(s, ">")
    IN  IF /\ Len(s) >= 4
           /\ s[1] = "<"
           /\ s[2] \in WordChars
           /\ gt > 0
           /\ s[gt - 1] = "/"
        THEN gt
        ELSE 0

empty_tag_replacement_keeps_slash(name, rest) ==
    <<"<">> \o name \o rest \o <<"/", ">", "<", "/">> \o name \o <<">">>

\* the replacement <\1\2></\1>
empty_tag_replacement(name, rest) ==
    <<"<">> \o name \o rest \o <<">", "<", "/">> \o name \o <<">">>

RECURSIVE fix_empty_tags(_)
\* re.sub over the text, leftmost matches first, none overlapping
fix_empty_tags(xml_string) ==
    IF xml_string = <<>> THEN <<>>
    ELSE
      LET n == match_length(xml_string)
          e == name_end(xml_string)
      IN  IF n = 0
          THEN <<Head(xml_string)>> \o fix_empty_tags(Tail(xml_string))
          ELSE empty_tag_replacement(SubSeq(xml_string, 2, e),
                                     SubSeq(xml_string, e + 1, n - 2))
                 \o fix_empty_tags(SubSeq(xml_string, n + 1, Len(xml_string)))

RECURSIVE split(_)
\* xml_string.split('\n')
split(s) ==
    LET k == index_of(s, "\n")
    IN  IF k = 0 THEN <<s>>
        ELSE <<SubSeq(s, 1, k - 1)>> \o split(SubSeq(s, k + 1, Len(s)))

RECURSIVE join_lines(_)
\* '\n'.join(cleaned_lines)
join_lines(lines) ==
    IF lines = <<>> THEN <<>>
    ELSE IF Len(lines) = 1 THEN lines[1]
    ELSE lines[1] \o <<"\n">> \o join_lines(Tail(lines))

startswith(s, prefix) ==
    Len(s) >= Len(prefix) /\ SubSeq(s, 1, Len(prefix)) = prefix

prev_is_tag_opening_only(prev_line) ==
    \/ startswith(prev_line, <<"<", "?">>)
    \/ /\ startswith(prev_line, <<"<">>)
       /\ ~startswith(prev_line, <<"<", "!">>)
       /\ ~startswith(prev_line, <<"<", "/">>)

\* prev_line.startswith('<?') or (prev_line.startswith('<') and not
\* prev_line.startswith('<!--'))
prev_is_tag(prev_line) ==
    \/ startswith(prev_line, <<"<", "?">>)
    \/ /\ startswith(prev_line, <<"<">>)
       /\ ~startswith(prev_line, <<"<", "!", "-", "-">>)

\* the body of the loop over the lines: cleaned_lines after line i
cleaned_lines(lines) ==
    LET upto[i \in 0..Len(lines)] ==
          IF i = 0 THEN <<>>
          ELSE IF i = 1 THEN <<lines[1]>>
          ELSE
            LET cleaned   == upto[i - 1]
                is_empty  == strip(lines[i]) = <<>>
                prev_line == strip(cleaned[Len(cleaned)])
            IN  IF is_empty /\ (prev_line = <<>> \/ prev_is_tag(prev_line))
                THEN cleaned
                ELSE Append(cleaned, lines[i])
    IN  upto[Len(lines)]

remove_empty_lines(xml_string) == join_lines(cleaned_lines(split(xml_string)))

(***************************************************************************)
(* get_file_name (src/Setting_Processing/data_setting_1209.py).  The path  *)
(* of the Result Document is kept as its stem; a mapping is the dict that  *)
(* load_csv_mapping returns, from str(data_idx) to the file_name cell.     *)
(***************************************************************************)
FloatNan == [t |-> "nan", s |-> <<>>, n |-> 0]

NoMapping      == [t |-> "none", entries |-> <<>>]
Mapping(es)    == [t |-> "dict", entries |-> es]

\* 'if csv_mapping:'
mapping_truthy(csv_mapping) ==
    csv_mapping.t = "dict" /\ DOMAIN csv_mapping.entries # {}

\* stem.split('_')[0]
data_id_of(stem) ==
    IF index_of(stem, "_") = 0 THEN stem
    ELSE SubSeq(stem, 1, index_of(stem, "_") - 1)

\* csv_mapping.get(data_id)
mapping_get(csv_mapping, data_id) ==
    IF data_id \in DOMAIN csv_mapping.entries
    THEN csv_mapping.entries[data_id] ELSE TNull

\* truthiness of a file_name cell: a blank cell is the float nan, truthy
name_truthy(v) == v.t = "nan" \/ text_truthy(v)

NoData          == [t |-> "none", sources |-> [t |-> "absent", items |-> <<>>]]
EmptyData       == [t |-> "empty", sources |-> [t |-> "absent", items |-> <<>>]]
ArrayData       == [t |-> "list", sources |-> [t |-> "absent", items |-> <<>>]]
DataWith(srcs)  == [t |-> "dict", sources |-> srcs]
SourcesAbsent   == [t |-> "absent", items |-> <<>>]
SourcesNull     == [t |-> "null", items |-> <<>>]
SourcesOf(is)   == [t |-> "list", items |-> is]

\* 'if json_data:'
data_truthy(json_data) == json_data.t \in {"dict", "list"}

NameRaised      == [raised |-> TRUE, value |-> TNull]
NameIs(v)       == [raised |-> FALSE, value |-> v]

\* f"{Path(json_file_path).stem}.jpg"
default_name(stem) == Str(stem \o DotJpg)

\* the second and third choice: sources[1], then the default name
name_from_data(stem, json_data) ==
    IF ~data_truthy(json_data) THEN NameIs(default_name(stem))
    ELSE IF json_data.t # "dict" THEN NameRaised
    ELSE IF json_data.sources.t = "null" THEN NameRaised
    ELSE IF /\ Len(json_data.sources.items) > 1
            /\ name_truthy(json_data.sources.items[2])
    THEN NameIs(json_data.sources.items[2])
    ELSE NameIs(default_name(stem))

get_file_name(stem, csv_mapping, json_data) ==
    IF /\ mapping_truthy(csv_mapping)
       /\ name_truthy(mapping_get(csv_mapping, data_id_of(stem)))
    THEN NameIs(mapping_get(csv_mapping, data_id_of(stem)))
    ELSE name_from_data(stem, json_data)

(***************************************************************************)
(* download_multiple_data (gcs_path_downloader_ver2.py in both extraction  *)
(* directories, gcs_path_downloader.py in Setting_Processing).  A file is  *)
(* its position in filtered_files.  A future is "unsubmitted", "queued"    *)
(* in the executor's work queue, "running" in a worker thread, or done     *)
(* with the value download_gcs_file returned: "ok" or "failed".            *)
(***************************************************************************)
MaxFiles   == 3
MaxWorkers == 2

Files == 1..Len(filtered_files)

Done == {"ok", "failed"}

count_success_only(counts, result) ==
    IF result THEN [counts EXCEPT !.success_count = @ + 1] ELSE counts

\* if future.result(): success_count += 1 / else: failure_count += 1
count_result(counts, result) ==
    IF result THEN [counts EXCEPT !.success_count = @ + 1]
    ELSE [counts EXCEPT !.failure_count = @ + 1]

\* the work item a free worker thread takes: the oldest queued one
next_work_item ==
    CHOOSE f \in Files :
        /\ futures[f] = "queued"
        /\ \A g \in Files : futures[g] = "queued" => f <= g

Running == { f \in Files : futures[f] = "running" }

DownloadIdle ==
    /\ filtered_files = <<>>
    /\ max_workers = 1
    /\ futures = <<>>
    /\ yielded = {}
    /\ attempts = <<>>
    /\ download = [pc |-> "idle", success_count |-> 0, failure_count |-> 0]

(***************************************************************************)
(* The pipeline runners (Run_Extracting_Pipeline.py, five scripts;         *)
(* Run_Setting_Pipeline.py, four).  A script is its position in the list;  *)
(* scripts[i] says what happens when run_script is called on it: "ok" exit *)
(* code 0, "nonzero" another exit code, "missing" no such file,            *)
(* "exception" subprocess.run raises.                                      *)
(***************************************************************************)
ScriptCounts == {4, 5}

ScriptOutcomes == {"ok", "nonzero", "missing", "exception"}

\* run_script(...): True when the script ran and returned 0
run_script(outcome) == outcome = "ok"

return_zero(failure_count) == 0

\* 'if failure_count > 0: return 1 / else: return 0'
return_value(failure_count) == IF failure_count > 0 THEN 1 ELSE 0

PipelineIdle ==
    /\ user_input = "argv"
    /\ scripts = <<>>
    /\ started = <<>>
    /\ pipeline = [pc |-> "idle", idx |-> 1, success_count |-> 0,
                   failure_count |-> 0, status |-> -1]

(***************************************************************************)
(* download_and_map_source_data (csv_with_source_data.py).  A matching     *)
(* blob is [src_idx, filename, content]; content says what the download    *)
(* gives: a JSON object with a filename string, one whose filename is not  *)
(* a string, a text that is not JSON, or an error.  The manifest is kept   *)
(* as its src_idx values; the sort that follows reorders the rows and      *)
(* leaves the file_name of each row as it is.                              *)
(***************************************************************************)
MaxMatching == 2
PoolSize    == 5      \* ThreadPoolExecutor(max_workers=5)

\* the characters of the names that [^\w...-] removes
Special == {" ", "/", "\""}

RECURSIVE collapse(_)
\* re.sub(r'[.-]+', '.', clean_name)
collapse(s) ==
    IF s = <<>> THEN <<>>
    ELSE IF Head(s) \in {".", "-"}
    THEN IF Len(s) > 1 /\ s[2] \in {".", "-"} THEN collapse(Tail(s))
         ELSE <<".">> \o collapse(Tail(s))
    ELSE <<Head(s)>> \o collapse(Tail(s))

clean_filename(filename) ==
    LET clean_name == collapse(SelectSeq(filename, LAMBDA c : c \notin Special))
    IN  IF filename = <<>> THEN filename
        ELSE IF index_of(clean_name, ".") = 0 THEN clean_name \o DotJpg
        ELSE clean_name

\* file_name[1:-1] when the name starts and ends with a double quote
unquote(file_name) ==
    IF file_name # <<>> /\ Head(file_name) = "\"" /\ file_name[Len(file_name)] = "\""
    THEN SubSeq(file_name, 2, Len(file_name) - 1)
    ELSE file_name

NoName == [stored |-> FALSE, name |-> <<>>]
Stores(name) == [stored |-> TRUE, name |-> name]

\* what download_and_extract_data stores under the blob's src_idx, if
\* anything
extracted_name(blob) ==
    CASE blob.content.t = "json" ->
            Stores(clean_filename(unquote(blob.content.name)))
      [] blob.content.t = "nonstring" -> Stores(clean_filename(blob.filename))
      [] blob.content.t = "text" -> Stores(blob.filename)
      [] OTHER -> NoName

\* source_data_dict[src_idx] = ...
store(dict, key, name) ==
    [k \in DOMAIN dict \cup {key} |-> IF k = key THEN name ELSE dict[k]]

\* source_data_dict.get(x, '')
dict_get(dict, key) == IF key \in DOMAIN dict THEN dict[key] ELSE <<>>

\* the src_idx column of the manifest
SrcIdx == {1, 2, 3}

\* df['file_name'] = df['src_idx'].astype(str).map(...)
file_name_column(dict) == [x \in SrcIdx |-> dict_get(dict, x)]

EmptyDict == [k \in {} |-> <<>>]

MapIdle ==
    /\ matching_files = <<>>
    /\ tasks = <<>>
    /\ source_data_dict = EmptyDict
    /\ mapper = [pc |-> "idle", call |-> 0, first |-> file_name_column(EmptyDict),
                 file_name |-> file_name_column(EmptyDict)]

ToolsIdle == DownloadIdle /\ PipelineIdle /\ MapIdle

(***************************************************************************)
(* Initial states of a run                                                 *)
(***************************************************************************)
IdBase == 26640     \* data_idx values run downwards from here

\* a row case: the cell, the difficulty tag, and the documents on disk
Case(cell, difficulty, res, src) ==
    [cell |-> cell, difficulty |-> difficulty, res |-> res, src |-> src]

SampleLists ==
    { <<BoxOf(CoordsAbsent, TheBox, TheText)>>,
      <<BoxOf(CoordsAbsent, ObjectAbsent, TheText),
        PolyOf(<<P(10, 10), P(20, 20)>>, Str(EmptyToken)),
        BoxOf(FullCorners, TheBox, Str(<<>>))>>,
      <<NonDictRecord>>,
      <<BoxOf(CoordsAbsent, Box(Num(0), Num(0), StrVal, Num(1)), TheText)>>,
      <<BoxOf(CoordsAbsent, TheBox, TNum(5))>> }

GoodDoc == DocWith(Cell(ListOf(<<BoxOf(CoordsAbsent, TheBox, TheText)>>),
                        ListOf(<<PolyOf(<<P(10, 10), P(20, 20)>>, TheText)>>)))

\* what the directories of the other tier hold for the same data_idx
OtherTierDoc ==
    DocWith(Cell(ListOf(<<PolyOf(<<P(1, 1), P(2, 2), P(3, 1)>>, TheText)>>),
                 ListOf(<<BoxOf(FullCorners, ObjectAbsent, TheText)>>)))
OtherTierSource == SourceDoc(ImagesOf(<<Image(Info(Num(64), Num(48)))>>))

ResultCases ==
    {AbsentDoc, Unparsable, EmptyDoc, ArrayDoc}
    \cup ShortDocs \cup NullPayloadDocs \cup KeylessDocs \cup RaisingDocs
    \cup { DocWith(Cell(ListOf(l), ListOf(l))) : l \in SampleLists }

SourceCases ==
    {AbsentSource, BadSource, EmptySource, GoodSource}
    \cup DimlessSources \cup OddSources \cup RaisingSources

CellCases == {"plain", "json", "upper", "keyless", "nan"}

\* one factor varies at a time around the good row, plus the rows that lack
\* both documents
RowCases ==
    { Case(c, "sang", GoodDoc, GoodSource) : c \in CellCases }
    \cup { Case("plain", g, GoodDoc, GoodSource) : g \in {"jung", "other"} }
    \cup { Case("plain", "sang", r, GoodSource) : r \in ResultCases }
    \cup { Case("plain", "sang", GoodDoc, s) : s \in SourceCases }
    \cup { Case(c, "sang", AbsentDoc, AbsentSource) : c \in {"plain", "nan"} }
    \cup { Case("plain", "jung", Unparsable, BadSource) }

\* the image name of the row at position i (1-based): img<i>.jpg
ImageName(i, ext) == <<"i", "m", "g">> \o digits(i) \o ext

MkRow(c, i) ==
    [data_idx   |-> IdBase - i,
     file_name  |->
        CASE c.cell = "plain"   -> PlainCell(ImageName(i, DotJpg))
          [] c.cell = "json"    -> JsonCell(ImageName(i, DotJpg))
          [] c.cell = "upper"   -> PlainCell(ImageName(i, DotJPG))
          [] c.cell = "keyless" -> KeylessCell
          [] OTHER              -> NanCell,
     difficulty |-> c.difficulty,
     work_edate  |-> DateTime(2024, 3, i, " ", 8, 30, 59),
     check_edate |-> DateTime(2024, 5, 20 - i, "T", 12, 0, 0),
     json_name  |-> ImageName(i, DotJson),
     res        |-> c.res,
     src        |-> c.src,
     other_res  |-> OtherTierDoc,
     other_src  |-> OtherTierSource]

\* the values of the date columns
DateValues ==
    { NaN, DateTime(2024, 3, 1, " ", 8, 30, 59),
      DateTime(2024, 2, 28, " ", 10, 0, 0) }

GoodCase == Case("plain", "sang", GoodDoc, GoodSource)

\* manifests of good rows whose date columns vary
DatedManifests ==
    UNION { { [i \in 1..n |->
                 [MkRow(GoodCase, i) EXCEPT !.work_edate = w[i],
                                            !.check_edate = c[i]]] :
                w \in [1..n -> DateValues], c \in [1..n -> DateValues] } :
            n \in 1..MaxRows }

Manifests ==
    { [i \in 1..Len(cs) |-> MkRow(cs[i], i)] : cs \in SeqsUpTo(RowCases, MaxRows) }

GoodEnv ==
    [argv |-> TRUE, project_dir |-> TRUE, source_dir |-> TRUE,
     result_dir |-> TRUE, csv |-> "ok", template |-> "ok"]

BrokenEnvs ==
    { [GoodEnv EXCEPT !.argv = FALSE],
      [GoodEnv EXCEPT !.project_dir = FALSE],
      [GoodEnv EXCEPT !.source_dir = FALSE],
      [GoodEnv EXCEPT !.result_dir = FALSE],
      [GoodEnv EXCEPT !.csv = "missing"],
      [GoodEnv EXCEPT !.csv = "unparsable"],
      [GoodEnv EXCEPT !.template = "missing"],
      [GoodEnv EXCEPT !.template = "unparsable"] }

\* with a broken environment the manifest has at most one row
ShortManifests == { m \in Manifests : Len(m) <= 1 }

\* the example image elements of the template
TemplateImages ==
    <<[id |-> "0", name |-> <<"e", "x">>, width |-> "0", height |-> "0",
       polygons |-> <<>>],
      [id |-> "1", name |-> <<"e", "y">>, width |-> "0", height |-> "0",
       polygons |-> <<>>]>>

TemplateMeta ==
    [size |-> "0", created |-> TzStr("template"), updated |-> TzStr("template")]

FmtIdle ==
    /\ fmt_in = <<>>
    /\ fmt_out = [pass |-> -1, text |-> <<>>, prev |-> <<>>, first |-> <<>>]

TzIdle ==
    /\ tz_in = NaN
    /\ tz_out = [state |-> "idle", value |-> TzNaN]

NameIdle ==
    /\ name_in = [stem |-> <<>>, csv_mapping |-> NoMapping,
                  json_data |-> NoData]
    /\ name_out = [state |-> "idle", value |-> TNull]

ConvIdle ==
    /\ conv_in = [variant |-> "single", difficulty |-> "sang",
                  result |-> GoodDoc, source |-> GoodSource, image_id |-> 1]
    /\ conv_out = [state |-> "idle", elem |-> NoElem]

RunInit ==
    /\ program \in {"single", "merged"}
    /\ \/ env = GoodEnv /\ df \in Manifests \cup DatedManifests
       \/ env \in BrokenEnvs /\ df \in ShortManifests
    /\ pc = "main"
    /\ idx = 0
    /\ meta = TemplateMeta
    /\ root = <<>>
    /\ processed_count = 0
    /\ missing_files = <<>>
    /\ written = FALSE
    /\ exit_code = -1

Init == ConvIdle /\ FmtIdle /\ TzIdle /\ NameIdle /\ RunInit /\ ToolsIdle

(***************************************************************************)
(* main and process_csv_to_xml                                             *)
(***************************************************************************)
\* exit status after an exception reached main: the single-tier main
\* returns 1, the merged main prints and falls off its end
exit_after_exception(v) == IF v = "single" THEN 1 ELSE 0

Exit(code) ==
    /\ pc' = "exit"
    /\ exit_code' = code

\* main: fewer than two arguments
MainUsage ==
    /\ pc = "main"
    /\ program = "single"
    /\ ~env.argv
    /\ Exit(1)
    /\ UNCHANGED <<call_vars, tool_vars, meta, program, env, df, idx, root, processed_count,
                   missing_files, written>>

\* process_csv_to_xml returns False and main returns 0
SetupNotFound ==
    /\ pc = "main"
    /\ program = "single"
    /\ env.argv
    /\ \/ ~env.project_dir
       \/ ~env.source_dir
       \/ env.csv = "missing"
       \/ env.template = "missing"
    /\ Exit(0)
    /\ UNCHANGED <<call_vars, tool_vars, meta, program, env, df, idx, root, processed_count,
                   missing_files, written>>

\* everything the setup needs is there and loads
setup_found(v, e) ==
    IF v = "single"
    THEN /\ e.argv /\ e.project_dir /\ e.source_dir
         /\ e.csv # "missing" /\ e.template # "missing"
    ELSE TRUE

setup_loads(v, e) ==
    IF v = "single"
    THEN e.csv # "unparsable" /\ e.template # "unparsable"
    ELSE e.csv = "ok" /\ e.template = "ok"

\* pd.read_csv or ET.parse raises
SetupRaises ==
    /\ pc = "main"
    /\ setup_found(program, env)
    /\ ~setup_loads(program, env)
    /\ Exit(exit_after_exception(program))
    /\ UNCHANGED <<call_vars, tool_vars, meta, program, env, df, idx, root, processed_count,
                   missing_files, written>>

\* the pandas reduction raises on a column of strings and nan
DateMaxRaises ==
    /\ pc = "main"
    /\ setup_found(program, env)
    /\ setup_loads(program, env)
    /\ program = "single"
    /\ max_may_raise(work_edate(df)) \/ max_may_raise(check_edate(df))
    /\ Exit(exit_after_exception(program))
    /\ UNCHANGED <<call_vars, tool_vars, meta, program, env, df, idx, root, processed_count,
                   missing_files, written>>

remove_every_other_image(images) ==
    [k \in 1..(Len(images) \div 2) |-> images[2 * k]]

\* root.findall('image') removed one by one
remove_template_images(images) == SelectSeq(images, LAMBDA im : FALSE)

\* manifest and template loaded; root holds the template's children with
\* the example images removed
SetupOk ==
    /\ pc = "main"
    /\ setup_found(program, env)
    /\ setup_loads(program, env)
    /\ pc' = "rows"
    /\ meta' = [size    |-> size_text(df),
                created |-> summary_date(program, work_edate(df)),
                updated |-> summary_date(program, check_edate(df))]
    /\ root' = remove_template_images(TemplateImages)
    /\ processed_count' = 0
    /\ missing_files' = <<>>
    /\ UNCHANGED <<call_vars, tool_vars, program, env, df, idx, written, exit_code>>

AtRow == pc = "rows" /\ idx < Len(df)

ThisRow == row_step(program, env, df[idx + 1], idx, processed_count)

\* no file name, unknown difficulty, or a document that did not load
RowSkipped ==
    /\ AtRow
    /\ ThisRow.kind = "skipped"
    /\ idx' = idx + 1
    /\ UNCHANGED <<call_vars, tool_vars, meta, program, env, df, pc, root, processed_count,
                   missing_files, written, exit_code>>

append_twice(list, entries) == list \o entries \o entries

\* missing_files.append(...)
append(list, entries) == list \o entries

\* Result Document or Source Document not found
RowMissing ==
    /\ AtRow
    /\ ThisRow.kind = "missing"
    /\ missing_files' = append(missing_files, ThisRow.missing)
    /\ idx' = idx + 1
    /\ UNCHANGED <<call_vars, tool_vars, meta, program, env, df, pc, root, processed_count,
                   written, exit_code>>

\* the image element is built and appended
RowConverted ==
    /\ AtRow
    /\ ThisRow.kind = "converted"
    /\ root' = Append(root, ThisRow.elem)
    /\ processed_count' = processed_count + 1
    /\ idx' = idx + 1
    /\ UNCHANGED <<call_vars, tool_vars, meta, program, env, df, pc, missing_files, written,
                   exit_code>>

\* an exception leaves the loop and reaches main
RowRaises ==
    /\ AtRow
    /\ ThisRow.kind = "raised"
    /\ Exit(exit_after_exception(program))
    /\ UNCHANGED <<call_vars, tool_vars, meta, program, env, df, idx, root, processed_count,
                   missing_files, written>>

\* after the loop: ET.tostring raises on a summary field that is nan
WriteRaises ==
    /\ pc = "rows"
    /\ idx = Len(df)
    /\ ~serializable(meta)
    /\ Exit(exit_after_exception(program))
    /\ UNCHANGED <<call_vars, tool_vars, meta, program, env, df, idx, root, processed_count,
                   missing_files, written>>

\* after the loop: format, write the output file, main returns 0
WriteOutput ==
    /\ pc = "rows"
    /\ idx = Len(df)
    /\ serializable(meta)
    /\ written' = TRUE
    /\ Exit(0)
    /\ UNCHANGED <<call_vars, tool_vars, meta, program, env, df, idx, root, processed_count,
                   missing_files>>

Next ==
    \/ MainUsage
    \/ SetupNotFound
    \/ SetupRaises
    \/ DateMaxRaises
    \/ SetupOk
    \/ RowSkipped
    \/ RowMissing
    \/ RowConverted
    \/ RowRaises
    \/ WriteRaises
    \/ WriteOutput

Spec == Init /\ [][Next]_vars

(***************************************************************************)
(* One call of convert_result_json_to_xml on its own                       *)
(***************************************************************************)
ImageNameA == <<"a", "<", "b", ".", "j", "p", "g">>

PayloadDocs ==
    { DocWith(Cell(ListOf(l), ListAbsent)) : l \in AnnotationLists }
    \cup { DocWith(Cell(ListAbsent, ListOf(l))) : l \in AnnotationLists }

PlainDocs ==
    ShortDocs \cup NullPayloadDocs \cup KeylessDocs \cup RaisingDocs
    \cup {EmptyDoc, GoodDoc}

Callers ==
    { <<"single", "sang">>, <<"merged", "jung">>, <<"merged", "sang">> }

ConvInit ==
    /\ \E c \in Callers, i \in 1..2 :
         \/ \E r \in PayloadDocs :
              conv_in = [variant |-> c[1], difficulty |-> c[2], result |-> r,
                         source |-> GoodSource, image_id |-> 1]
         \/ \E r \in PlainDocs,
               s \in {GoodSource, EmptySource} \cup DimlessSources
                     \cup OddSources \cup RaisingSources :
              conv_in = [variant |-> c[1], difficulty |-> c[2], result |-> r,
                         source |-> s, image_id |-> i]
    /\ conv_out = [state |-> "pending", elem |-> NoElem]

RunIdle ==
    /\ program = "single"
    /\ env = GoodEnv
    /\ df = <<>>
    /\ pc = "idle"
    /\ idx = 0
    /\ meta = TemplateMeta
    /\ root = <<>>
    /\ processed_count = 0
    /\ missing_files = <<>>
    /\ written = FALSE
    /\ exit_code = -1

InitConv == ConvInit /\ FmtIdle /\ TzIdle /\ NameIdle /\ RunIdle /\ ToolsIdle

Converted ==
    convert_result_json_to_xml(conv_in.variant, conv_in.result,
        conv_in.image_id, ImageNameA, conv_in.source, conv_in.difficulty)

\* the call returns the image element
ConvertReturns ==
    /\ conv_out.state = "pending"
    /\ ~Converted.raised
    /\ conv_out' = [state |-> "returned", elem |-> Converted.elem]
    /\ UNCHANGED <<conv_in, fmt_vars, tz_vars, name_vars, run_vars, tool_vars>>

\* the call raises
ConvertRaises ==
    /\ conv_out.state = "pending"
    /\ Converted.raised
    /\ conv_out' = [state |-> "raised", elem |-> NoElem]
    /\ UNCHANGED <<conv_in, fmt_vars, tz_vars, name_vars, run_vars, tool_vars>>

NextConv == ConvertReturns \/ ConvertRaises

SpecConv == InitConv /\ [][NextConv]_vars

(***************************************************************************)
(* The output formatter applied to a text, and again to its own output     *)
(***************************************************************************)
DeclLine        == <<"<", "?", "x", "?", ">">>
OpenLine        == <<"<", "a", ">">>
IndentedLine    == <<"\t", "<", "a", ">">>
CloseLine       == <<"<", "/", "a", ">">>
TextLine        == <<"t">>
ElementLine     == <<"<", "a", ">", "t", "<", "/", "a", ">">>
CommentLine     == <<"<", "!", "-", "-", "x", "-", "-", ">">>
BlankLine       == <<>>
SpacesLine      == <<" ", "\t">>
SelfClosing     == <<"<", "a", "/", ">">>
SelfClosingAttr == <<"<", "a", " ", "b", "=", "'", "x", "'", "/", ">">>
SpacedClosing   == <<"<", "a", " ", "b", "=", "'", "x", "'", " ", "/", ">">>
HyphenClosing   == <<"<", "a", "-", "b", "/", ">">>

\* the lines a serializer writes, one tag or one text per line
Lines ==
    { DeclLine, OpenLine, IndentedLine, CloseLine, TextLine, ElementLine,
      CommentLine, BlankLine, SpacesLine, SelfClosing, SelfClosingAttr,
      SpacedClosing, HyphenClosing }

FormatterTexts ==
    { join_lines(ls) :
        ls \in UNION { [1..k -> Lines] : k \in 1..MaxLines } }

FmtInit ==
    /\ fmt_in \in FormatterTexts
    /\ fmt_out = [pass |-> 0, text |-> fmt_in, prev |-> <<>>, first |-> <<>>]

InitFmt == ConvIdle /\ FmtInit /\ TzIdle /\ NameIdle /\ RunIdle /\ ToolsIdle

\* pretty_xml_str = fix_empty_tags(pretty_xml_str), first and second time
FixEmptyTags ==
    /\ fmt_out.pass \in {0, 2}
    /\ fmt_out' = [fmt_out EXCEPT !.pass = @ + 1,
                                  !.prev = fmt_out.text,
                                  !.text = fix_empty_tags(fmt_out.text)]
    /\ UNCHANGED <<conv_vars, fmt_in, tz_vars, name_vars, run_vars, tool_vars>>

\* pretty_xml_str = remove_empty_lines(pretty_xml_str), first and second time
RemoveEmptyLines ==
    /\ fmt_out.pass \in {1, 3}
    /\ LET cleaned == remove_empty_lines(fmt_out.text)
       IN  fmt_out' = [pass  |-> fmt_out.pass + 1,
                       prev  |-> fmt_out.text,
                       text  |-> cleaned,
                       first |-> IF fmt_out.pass = 1 THEN cleaned
                                 ELSE fmt_out.first]
    /\ UNCHANGED <<conv_vars, fmt_in, tz_vars, name_vars, run_vars, tool_vars>>

NextFmt == FixEmptyTags \/ RemoveEmptyLines

SpecFmt == InitFmt /\ [][NextFmt]_vars

(***************************************************************************)
(* One call of add_timezone_to_datetime                                    *)
(***************************************************************************)
Years == (2023..MaxYear) \cup {2100}

AGoodDate == DateTime(2024, 3, 1, " ", 8, 30, 59)

\* the date-times of both formats around midnight and the ends of months
WellFormedDates ==
    { DateTime(y, mo, d, sep, h, 30, 59) :
        y \in Years, mo \in 1..12, d \in {1, 2, 28}, sep \in {"T", " "},
        h \in {0, 8, 9, 23} }
    \cup { DateTime(y, mo, days_in_month(y, mo), sep, 8, 0, 0) :
             y \in Years, mo \in 1..12, sep \in {"T", " "} }

\* values that neither format parses
MalformedDates ==
    { [AGoodDate EXCEPT !.mo = 13], [AGoodDate EXCEPT !.mo = 0],
      [AGoodDate EXCEPT !.d = 32], [AGoodDate EXCEPT !.d = 0],
      [AGoodDate EXCEPT !.mo = 2, !.d = 30],
      [AGoodDate EXCEPT !.y = 2023, !.mo = 2, !.d = 29],
      [AGoodDate EXCEPT !.y = 2100, !.mo = 2, !.d = 29],
      [AGoodDate EXCEPT !.h = 24], [AGoodDate EXCEPT !.mi = 60],
      [AGoodDate EXCEPT !.sec = 60], [AGoodDate EXCEPT !.sep = "/"],
      [AGoodDate EXCEPT !.tail = "Z"], [AGoodDate EXCEPT !.tail = "+09:00"],
      [AGoodDate EXCEPT !.shape = "date"],
      [AGoodDate EXCEPT !.shape = "empty"],
      NaN }

TzInit ==
    /\ tz_in \in WellFormedDates \cup MalformedDates
    /\ tz_out = [state |-> "pending", value |-> TzNaN]

InitTz == ConvIdle /\ FmtIdle /\ TzInit /\ NameIdle /\ RunIdle /\ ToolsIdle

\* one of the two strptime calls succeeds
TzConverts ==
    /\ tz_out.state = "pending"
    /\ strptime_ok(tz_in, "T") \/ strptime_ok(tz_in, " ")
    /\ tz_out' = [state |-> "returned",
                  value |-> add_timezone_to_datetime(tz_in)]
    /\ UNCHANGED <<conv_vars, fmt_vars, tz_in, name_vars, run_vars, tool_vars>>

\* both raise, the except branch returns the argument
TzGivesBack ==
    /\ tz_out.state = "pending"
    /\ ~strptime_ok(tz_in, "T") /\ ~strptime_ok(tz_in, " ")
    /\ tz_out' = [state |-> "returned",
                  value |-> add_timezone_to_datetime(tz_in)]
    /\ UNCHANGED <<conv_vars, fmt_vars, tz_in, name_vars, run_vars, tool_vars>>

NextTz == TzConverts \/ TzGivesBack

SpecTz == InitTz /\ [][NextTz]_vars

(***************************************************************************)
(* One call of get_file_name on its own                                    *)
(***************************************************************************)
Stems == { <<"7">>, <<"7", "_", "r">>, <<"8", "_", "r">> }

NameA == Str(<<"a", ".", "j", "p", "g">>)
NameB == Str(<<"b", ".", "j", "p", "g">>)

\* the file_name cells of a mapping: a name, an empty string, a blank cell
MappedValues == { NameA, Str(<<>>), FloatNan }

Mappings ==
    { NoMapping, Mapping(<<>>) }
    \cup { Mapping([k \in {<<"7">>} |-> v]) : v \in MappedValues }

SourcesCases ==
    { SourcesAbsent, SourcesNull, SourcesOf(<<>>), SourcesOf(<<NameA>>),
      SourcesOf(<<NameA, NameB>>), SourcesOf(<<NameA, Str(<<>>)>>),
      SourcesOf(<<NameA, TNull>>) }

Documents ==
    { NoData, EmptyData, ArrayData } \cup { DataWith(x) : x \in SourcesCases }

NameInit ==
    /\ name_in \in [stem : Stems, csv_mapping : Mappings, json_data : Documents]
    /\ name_out = [state |-> "pending", value |-> TNull]

InitName == ConvIdle /\ FmtIdle /\ TzIdle /\ NameInit /\ RunIdle /\ ToolsIdle

FileName ==
    get_file_name(name_in.stem, name_in.csv_mapping, name_in.json_data)

\* the call returns a name
GetFileNameReturns ==
    /\ name_out.state = "pending"
    /\ ~FileName.raised
    /\ name_out' = [state |-> "returned", value |-> FileName.value]
    /\ UNCHANGED <<conv_vars, fmt_vars, tz_vars, name_in, run_vars, tool_vars>>

\* .get on a document that is an array, len() of a null sources value
GetFileNameRaises ==
    /\ name_out.state = "pending"
    /\ FileName.raised
    /\ name_out' = [state |-> "raised", value |-> TNull]
    /\ UNCHANGED <<conv_vars, fmt_vars, tz_vars, name_in, run_vars, tool_vars>>

NextName == GetFileNameReturns \/ GetFileNameRaises

SpecName == InitName /\ [][NextName]_vars

(***************************************************************************)
(* One call of download_multiple_data                                      *)
(***************************************************************************)
DownloadInit ==
    /\ filtered_files \in { [i \in 1..n |-> i] : n \in 0..MaxFiles }
    /\ max_workers \in 1..MaxWorkers
    /\ futures = [f \in Files |-> "unsubmitted"]
    /\ yielded = {}
    /\ attempts = [f \in Files |-> 0]
    /\ download = [pc |-> "start", success_count |-> 0, failure_count |-> 0]

InitDl ==
    /\ ConvIdle /\ FmtIdle /\ TzIdle /\ NameIdle /\ RunIdle
    /\ DownloadInit /\ PipelineIdle /\ MapIdle

\* 'if not filtered_files: return 0, 0'
NoFiles ==
    /\ download.pc = "start"
    /\ filtered_files = <<>>
    /\ download' = [download EXCEPT !.pc = "returned"]
    /\ UNCHANGED <<call_vars, run_vars, pipe_vars, map_vars, filtered_files, max_workers, futures,
                   yielded, attempts>>

\* success_count = failure_count = 0, the executor is created
OpenExecutor ==
    /\ download.pc = "start"
    /\ filtered_files # <<>>
    /\ download' = [download EXCEPT !.pc = "submit"]
    /\ UNCHANGED <<call_vars, run_vars, pipe_vars, map_vars, filtered_files, max_workers, futures,
                   yielded, attempts>>

\* executor.submit(download_gcs_file, f, output_dir), in list order
Submit ==
    /\ download.pc = "submit"
    /\ \E f \in Files :
         /\ futures[f] = "unsubmitted"
         /\ \A g \in Files : g < f => futures[g] # "unsubmitted"
         /\ futures' = [futures EXCEPT ![f] = "queued"]
    /\ UNCHANGED <<call_vars, run_vars, pipe_vars, map_vars, filtered_files, max_workers, yielded,
                   attempts, download>>

\* the dict of futures is complete, the as_completed loop begins
AllSubmitted ==
    /\ download.pc = "submit"
    /\ \A f \in Files : futures[f] # "unsubmitted"
    /\ download' = [download EXCEPT !.pc = "collect"]
    /\ UNCHANGED <<call_vars, run_vars, pipe_vars, map_vars, filtered_files, max_workers, futures,
                   yielded, attempts>>

\* a worker thread, one of at most max_workers, takes the next work item
\* and calls download_gcs_file
WorkerStarts ==
    /\ \E f \in Files : futures[f] = "queued"
    /\ Cardinality(Running) < max_workers
    /\ futures' = [futures EXCEPT ![next_work_item] = "running"]
    /\ attempts' = [attempts EXCEPT ![next_work_item] = @ + 1]
    /\ UNCHANGED <<call_vars, run_vars, pipe_vars, map_vars, filtered_files, max_workers, yielded,
                   download>>

\* download_gcs_file returns True, or False after a non-zero return code or
\* a caught exception
WorkerFinishes ==
    /\ \E f \in Running, result \in Done :
         futures' = [futures EXCEPT ![f] = result]
    /\ UNCHANGED <<call_vars, run_vars, pipe_vars, map_vars, filtered_files, max_workers, yielded,
                   attempts, download>>

\* as_completed yields a finished future and the loop body counts it
CountResult ==
    /\ download.pc = "collect"
    /\ \E f \in Files \ yielded :
         /\ futures[f] \in Done
         /\ yielded' = yielded \cup {f}
         /\ download' = count_result(download, futures[f] = "ok")
    /\ UNCHANGED <<call_vars, run_vars, pipe_vars, map_vars, filtered_files, max_workers, futures,
                   attempts>>

\* every future was yielded; the executor shuts down and the counts return
DownloadReturns ==
    /\ download.pc = "collect"
    /\ yielded = Files
    /\ download' = [download EXCEPT !.pc = "returned"]
    /\ UNCHANGED <<call_vars, run_vars, pipe_vars, map_vars, filtered_files, max_workers, futures,
                   yielded, attempts>>

NextDl ==
    \/ NoFiles
    \/ OpenExecutor
    \/ Submit
    \/ AllSubmitted
    \/ WorkerStarts
    \/ WorkerFinishes
    \/ CountResult
    \/ DownloadReturns

SpecDl == InitDl /\ [][NextDl]_vars

(***************************************************************************)
(* One run of a pipeline runner                                            *)
(***************************************************************************)
PipelineInit ==
    /\ user_input \in {"argv", "typed", "empty", "declined"}
    /\ scripts \in UNION { [1..n -> ScriptOutcomes] : n \in ScriptCounts }
    /\ started = <<>>
    /\ pipeline = [pc |-> "input", idx |-> 1, success_count |-> 0,
                   failure_count |-> 0, status |-> -1]

InitPipe ==
    /\ ConvIdle /\ FmtIdle /\ TzIdle /\ NameIdle /\ RunIdle
    /\ DownloadIdle /\ PipelineInit /\ MapIdle

\* get_user_input returns the project given on the command line, or typed
\* and confirmed
InputGiven ==
    /\ pipeline.pc = "input"
    /\ user_input \in {"argv", "typed"}
    /\ pipeline' = [pipeline EXCEPT !.pc = "loop"]
    /\ UNCHANGED <<call_vars, run_vars, dl_vars, map_vars, user_input, scripts, started>>

\* get_user_input: an empty answer, sys.exit(1)
InputEmpty ==
    /\ pipeline.pc = "input"
    /\ user_input = "empty"
    /\ pipeline' = [pipeline EXCEPT !.pc = "exited", !.status = 1]
    /\ UNCHANGED <<call_vars, run_vars, dl_vars, map_vars, user_input, scripts, started>>

\* get_user_input: the confirmation is not 'y', sys.exit(0)
InputDeclined ==
    /\ pipeline.pc = "input"
    /\ user_input = "declined"
    /\ pipeline' = [pipeline EXCEPT !.pc = "exited", !.status = 0]
    /\ UNCHANGED <<call_vars, run_vars, dl_vars, map_vars, user_input, scripts, started>>

InLoop == pipeline.pc = "loop" /\ pipeline.idx <= Len(scripts)

\* run_script returns False before running anything: no such file
ScriptMissing ==
    /\ InLoop
    /\ scripts[pipeline.idx] = "missing"
    /\ pipeline' = [pipeline EXCEPT !.failure_count = @ + 1, !.pc = "report"]
    /\ UNCHANGED <<call_vars, run_vars, dl_vars, map_vars, user_input, scripts, started>>

\* subprocess.run is called and the script returns 0
ScriptSucceeds ==
    /\ InLoop
    /\ scripts[pipeline.idx] \notin {"missing"}
    /\ run_script(scripts[pipeline.idx])
    /\ started' = Append(started, pipeline.idx)
    /\ pipeline' = [pipeline EXCEPT !.success_count = @ + 1, !.idx = @ + 1]
    /\ UNCHANGED <<call_vars, run_vars, dl_vars, map_vars, user_input, scripts>>

\* subprocess.run is called and the script returns non-zero, or the call
\* raises; the loop breaks
ScriptFails ==
    /\ InLoop
    /\ scripts[pipeline.idx] \notin {"missing"}
    /\ ~run_script(scripts[pipeline.idx])
    /\ started' = Append(started, pipeline.idx)
    /\ pipeline' = [pipeline EXCEPT !.failure_count = @ + 1, !.pc = "report"]
    /\ UNCHANGED <<call_vars, run_vars, dl_vars, map_vars, user_input, scripts>>

\* the list is exhausted
LoopEnds ==
    /\ pipeline.pc = "loop"
    /\ pipeline.idx > Len(scripts)
    /\ pipeline' = [pipeline EXCEPT !.pc = "report"]
    /\ UNCHANGED <<call_vars, run_vars, dl_vars, map_vars, user_input, scripts, started>>

\* main returns
PipelineReturns ==
    /\ pipeline.pc = "report"
    /\ pipeline' = [pipeline EXCEPT
                      !.pc = "returned",
                      !.status = return_value(pipeline.failure_count)]
    /\ UNCHANGED <<call_vars, run_vars, dl_vars, map_vars, user_input, scripts, started>>

NextPipe ==
    \/ InputGiven
    \/ InputEmpty
    \/ InputDeclined
    \/ ScriptMissing
    \/ ScriptSucceeds
    \/ ScriptFails
    \/ LoopEnds
    \/ PipelineReturns

SpecPipe == InitPipe /\ [][NextPipe]_vars

(***************************************************************************)
(* download_and_map_source_data called twice on the same matching blobs    *)
(***************************************************************************)
Letter(f) == <<"a", "b", "c", "d">>[f]

\* the blob at position f for a src_idx: "<src_idx>_<letter>.json"
BlobName(f, x) == digits(x) \o <<"_">> \o <<Letter(f)>> \o DotJson

\* what the blob at position f can hold
Contents(f) ==
    { [t |-> "json", name |-> <<Letter(f), " ", "-", ".", "j", "p", "g">>],
      [t |-> "nonstring", name |-> <<>>],
      [t |-> "text", name |-> <<>>],
      [t |-> "error", name |-> <<>>] }

Blobs(f) ==
    { [src_idx |-> x, filename |-> BlobName(f, x), content |-> c] :
        x \in {1, 2}, c \in Contents(f) }

MatchingLists ==
    UNION { { m \in [1..n -> UNION { Blobs(f) : f \in 1..n }] :
                \A f \in 1..n : m[f] \in Blobs(f) } :
            n \in 0..MaxMatching }

MapInit ==
    /\ matching_files \in MatchingLists
    /\ tasks = [f \in 1..Len(matching_files) |-> "queued"]
    /\ source_data_dict = EmptyDict
    /\ mapper = [pc |-> "pool", call |-> 1,
                 first |-> file_name_column(EmptyDict),
                 file_name |-> file_name_column(EmptyDict)]

InitMap ==
    /\ ConvIdle /\ FmtIdle /\ TzIdle /\ NameIdle /\ RunIdle
    /\ DownloadIdle /\ PipelineIdle /\ MapInit

Blob(f) == matching_files[f]

\* a worker thread, one of five, takes the next blob of executor.map
ExtractStarts ==
    /\ mapper.pc = "pool"
    /\ Cardinality({ g \in DOMAIN tasks : tasks[g] = "running" }) < PoolSize
    /\ \E f \in DOMAIN tasks :
         /\ tasks[f] = "queued"
         /\ \A g \in DOMAIN tasks : g < f => tasks[g] # "queued"
         /\ tasks' = [tasks EXCEPT ![f] = "running"]
    /\ UNCHANGED <<call_vars, run_vars, dl_vars, pipe_vars, matching_files,
                   source_data_dict, mapper>>

\* the download is done and the name is stored under the blob's src_idx
ExtractStores ==
    /\ mapper.pc = "pool"
    /\ \E f \in DOMAIN tasks :
         /\ tasks[f] = "running"
         /\ extracted_name(Blob(f)).stored
         /\ source_data_dict' = store(source_data_dict, Blob(f).src_idx,
                                      extracted_name(Blob(f)).name)
         /\ tasks' = [tasks EXCEPT ![f] = "done"]
    /\ UNCHANGED <<call_vars, run_vars, dl_vars, pipe_vars, matching_files,
                   mapper>>

\* the download raises: nothing is stored, the worker returns False
ExtractFails ==
    /\ mapper.pc = "pool"
    /\ \E f \in DOMAIN tasks :
         /\ tasks[f] = "running"
         /\ ~extracted_name(Blob(f)).stored
         /\ tasks' = [tasks EXCEPT ![f] = "done"]
    /\ UNCHANGED <<call_vars, run_vars, dl_vars, pipe_vars, matching_files,
                   source_data_dict, mapper>>

AllExtracted == \A f \in DOMAIN tasks : tasks[f] = "done"

\* the pool is done and the file_name column is added; the first call is
\* followed by a second one on the same blobs
FirstCallMaps ==
    /\ mapper.pc = "pool" /\ mapper.call = 1
    /\ AllExtracted
    /\ mapper' = [pc |-> "pool", call |-> 2,
                  first |-> file_name_column(source_data_dict),
                  file_name |-> file_name_column(source_data_dict)]
    /\ tasks' = [f \in DOMAIN tasks |-> "queued"]
    /\ source_data_dict' = EmptyDict
    /\ UNCHANGED <<call_vars, run_vars, dl_vars, pipe_vars, matching_files>>

SecondCallMaps ==
    /\ mapper.pc = "pool" /\ mapper.call = 2
    /\ AllExtracted
    /\ mapper' = [mapper EXCEPT
                    !.pc = "mapped",
                    !.file_name = file_name_column(source_data_dict)]
    /\ UNCHANGED <<call_vars, run_vars, dl_vars, pipe_vars, matching_files,
                   tasks, source_data_dict>>

NextMap ==
    \/ ExtractStarts
    \/ ExtractStores
    \/ ExtractFails
    \/ FirstCallMaps
    \/ SecondCallMaps

SpecMap == InitMap /\ [][NextMap]_vars

(***************************************************************************)
(* Properties of the row loop                                              *)
(***************************************************************************)
\* the resolved file name of the row at position i (1-based)
RowFilename(i) == extract_filename_from_csv(df[i].file_name)

\* the row has a file name, and in the merged manifest a known difficulty
RowNamed(i) ==
    /\ RowFilename(i).t = "str"
    /\ RowFilename(i).name # <<>>
    /\ program = "merged" => df[i].difficulty \in {"jung", "sang"}

\* the name attribute an image element built from row i carries
RowImageName(i) == escape_str(RowFilename(i).name)

\* element n of the output was built from row i
BuiltFrom(n, i) == RowNamed(i) /\ root[n].name = RowImageName(i)

LoopStarted == pc # "main"
Finished    == pc = "exit" /\ written

\* C1 as stated: the id of the Nth output image equals N-1
C1_DenseIds ==
    Finished => \A n \in 1..Len(root) : root[n].id = ToString(n - 1)

\* C1 amended: the output image elements appear in manifest row order, and
\* when every manifest row yielded an image element the id of the Nth
\* output image equals N-1
C1_RowOrderDenseWhenComplete ==
    Finished =>
        /\ \A m, n \in 1..Len(root) :
             m < n => \E i, j \in 1..Len(df) :
                        i < j /\ BuiltFrom(m, i) /\ BuiltFrom(n, j)
        /\ Len(root) = Len(df) =>
             \A n \in 1..Len(root) : root[n].id = ToString(n - 1)

C1_Witness ==
    /\ Finished
    /\ Len(df) = MaxRows
    /\ Len(root) = Len(df)

\* C2: the id of every emitted image element is the zero-based manifest
\* position of its row, whatever happened to the other rows, and the ids
\* increase strictly along the output
C2_IdIsManifestPosition ==
    LoopStarted =>
        /\ \A n \in 1..Len(root) :
             \E i \in 1..idx : BuiltFrom(n, i) /\ root[n].id = ToString(i - 1)
        /\ \A m, n \in 1..Len(root) :
             m < n => \E i, j \in 1..idx :
                        /\ i < j
                        /\ root[m].id = ToString(i - 1)
                        /\ root[n].id = ToString(j - 1)

\* an image emitted after a row that was left out
C2_Witness ==
    /\ Finished
    /\ Len(root) >= 1
    /\ root[1].id # "0"

\* a row whose documents are both on disk and in order
WellFormedResults ==
    {GoodDoc} \cup ShortDocs \cup NullPayloadDocs \cup KeylessDocs
UsableSources == {GoodSource} \cup DimlessSources

ValidRow(i) ==
    /\ RowNamed(i)
    /\ df[i].res \in WellFormedResults
    /\ df[i].src \in UsableSources

\* a row that is valid but for its Source Document, which is not on disk
SourceLessRow(i) ==
    /\ RowNamed(i)
    /\ df[i].res \in WellFormedResults
    /\ df[i].src = AbsentSource

SourceLessRows == { i \in 1..Len(df) : SourceLessRow(i) }

\* both date columns hold a date for every row of a manifest with rows
DatesPresent ==
    /\ df # <<>>
    /\ \A i \in 1..Len(df) :
         df[i].work_edate.t = "str" /\ df[i].check_edate.t = "str"

OnlySourcesMissing ==
    /\ program = "single"
    /\ env = GoodEnv
    /\ DatesPresent
    /\ \A i \in 1..Len(df) : ValidRow(i) \/ SourceLessRow(i)

\* C3: with k rows lacking their Source Document and all else valid, the
\* single-tier run ends with N-k image elements, processed_count = N-k,
\* k missing entries and exit code 0
C3_MissingSourceTolerance ==
    (pc = "exit" /\ OnlySourcesMissing) =>
        /\ written
        /\ Len(root) = Len(df) - Cardinality(SourceLessRows)
        /\ processed_count = Len(df) - Cardinality(SourceLessRows)
        /\ Len(missing_files) = Cardinality(SourceLessRows)
        /\ exit_code = 0

C3_Witness ==
    /\ pc = "exit"
    /\ OnlySourcesMissing
    /\ Len(df) = MaxRows
    /\ Cardinality(SourceLessRows) = 1

\* the rows the loop has gone through
Visited == 1..idx

\* the entry the loop records for a row whose document is not there
ResultEntry(i) == result_entry(program, df[i])
SourceEntry(i) == source_json_filename(program, RowFilename(i).name)

InList(e, list) == \E k \in 1..Len(list) : list[k] = e

\* the row's Result Document or Source Document is missing or does not
\* parse
DocumentUnusable(i) ==
    \/ df[i].res.t \in {"absent", "unparsable"}
    \/ df[i].src.t \in {"absent", "unparsable"}

\* C4 as stated: every row with a missing or unparsable document is
\* recorded in the missing list, and the loop goes on to the next row
C4_UnusableRowsRecorded ==
    (env = GoodEnv /\ LoopStarted) =>
        /\ \A i \in Visited :
             (RowNamed(i) /\ DocumentUnusable(i)) =>
                \/ InList(ResultEntry(i), missing_files)
                \/ InList(SourceEntry(i), missing_files)
        /\ (pc = "exit" /\ idx < Len(df)) =>
             ~(RowNamed(idx + 1) /\ DocumentUnusable(idx + 1))

\* C5 as stated: whatever the rows and documents hold, the loop visits
\* every row and the output document is written
C5_NoRowAbortsTheRun ==
    (env = GoodEnv /\ DatesPresent /\ pc = "exit") =>
        (idx = Len(df) /\ written)

\* the manifest, the template or a required directory cannot be loaded
CannotLoad ==
    \/ env.csv # "ok"
    \/ env.template # "ok"
    \/ ~env.result_dir
    \/ ~env.source_dir
    \/ ~env.project_dir

\* C6 as stated: the exit status is non-zero exactly when the manifest, the
\* template or a required directory cannot be loaded
C6_ExitStatus ==
    (env.argv /\ pc = "exit") => (exit_code # 0 <=> CannotLoad)

\* the Result Document yields no annotation for the key the row is read with
FewResults(doc) ==
    /\ doc.t = "dict"
    /\ doc.results.t \in {"absent", "list"}
    /\ Len(doc.results.rows) < 2

PayloadOf(doc) == doc.results.rows[2].cells[1]

HasPayload(doc) ==
    /\ doc.t = "dict"
    /\ doc.results.t = "list"
    /\ Len(doc.results.rows) >= 2
    /\ doc.results.rows[2].t = "list"
    /\ doc.results.rows[2].cells # <<>>

NullPayload(doc) == HasPayload(doc) /\ PayloadOf(doc).t = "null"

KeyMissing(doc, key) ==
    /\ HasPayload(doc)
    /\ PayloadOf(doc).t = "dict"
    /\ IF key = "name_RRMP0X"
       THEN PayloadOf(doc).name_RRMP0X.t = "absent"
       ELSE PayloadOf(doc).name_5OJYEV.t = "absent"

ListKey(i) ==
    IF program = "merged" /\ df[i].difficulty = "jung" THEN "name_RRMP0X"
    ELSE "name_5OJYEV"

\* a matched row without annotations: both documents found and loaded, the
\* Result Document short, with a null payload or without the key
ZeroAnnotationRow(i) ==
    /\ RowNamed(i)
    /\ SourceEntry(i) = df[i].json_name
    /\ df[i].src \in UsableSources
    /\ \/ FewResults(df[i].res)
       \/ NullPayload(df[i].res)
       \/ KeyMissing(df[i].res, ListKey(i))

DaysBeforeYear(y) ==
    365 * (y - 1) + ((y - 1) \div 4) - ((y - 1) \div 100) + ((y - 1) \div 400)

DaysBeforeMonth(y, mo) ==
    LET upto[m \in 0..12] ==
          IF m = 0 THEN 0 ELSE upto[m - 1] + days_in_month(y, m)
    IN  upto[mo - 1]

\* hours from 0001-01-01 00:00 to the hour of v
HourNumber(v) ==
    24 * (DaysBeforeYear(v.y) + DaysBeforeMonth(v.y, v.mo) + v.d - 1) + v.h

InAcceptedFormat(v) ==
    /\ v.t = "str" /\ v.shape = "full" /\ v.sep \in {"T", " "} /\ v.tail = ""
    /\ v.mo \in 1..12 /\ v.d \in 1..days_in_month(v.y, v.mo)
    /\ v.h \in 0..23 /\ v.mi \in 0..59 /\ v.sec \in 0..59

\* the date-times that can lie 9 hours before v
NineHoursEarlier(v) ==
    { e \in { DateTime(y, mo, d, " ", h, v.mi, v.sec) :
                y \in {v.y - 1, v.y}, mo \in 1..12, d \in {v.d, v.d - 1, 28, 29, 30, 31},
                h \in {v.h - 9, v.h + 15} } :
        /\ InAcceptedFormat(e)
        /\ HourNumber(e) = HourNumber(v) - 9 }

\* the template has been loaded and its summary fields set
Assembled == pc = "rows" \/ written

\* C17: the size field is the number of manifest rows, whatever number of
\* rows was skipped or recorded as missing, and not the number of image
\* elements of the output
C17_SizeIsRowCount ==
    Assembled => meta.size = ToString(Len(df))

\* a written document with fewer images than manifest rows
C17_Witness ==
    /\ Finished
    /\ Len(df) = 2
    /\ Len(root) = 1
    /\ missing_files # <<>>
    /\ meta.size = "2"

\* the summary date the claim gives for a column: the latest of its dates 9
\* hours earlier, or the current instant when the column has no date
DateAsClaimed(column, field) ==
    IF dropna(column) = <<>> THEN field = Now
    ELSE \E i \in 1..Len(column) :
            /\ column[i].t = "str"
            /\ \A k \in 1..Len(column) :
                 column[k].t = "str" => str_leq(column[k], column[i])
            /\ \E e \in NineHoursEarlier(column[i]) :
                 field = TzStr(as_text(e) \o "+09:00")

AllRowsValid == \A i \in 1..Len(df) : ValidRow(i)

\* C18 as stated: created and updated are the latest work_edate and
\* check_edate, blank values left out, and the current instant for a column
\* without a date; a run over such a column still completes
C18_SummaryDates ==
    /\ (Assembled /\ df # <<>>) =>
         /\ DateAsClaimed(work_edate(df), meta.created)
         /\ DateAsClaimed(check_edate(df), meta.updated)
    /\ ( /\ pc = "exit"
         /\ env = GoodEnv
         /\ df # <<>>
         /\ AllRowsValid
         /\ \/ dropna(work_edate(df)) = <<>>
            \/ dropna(check_edate(df)) = <<>> ) => written

\* C20: once the template is loaded the root holds no image element of the
\* template; its image children are the elements built from the rows
\* converted so far, in row order, as many as processed_count
C20_OnlyImagesOfThisRun ==
    LoopStarted =>
        /\ \A n \in 1..Len(root), k \in 1..Len(TemplateImages) :
             root[n] # TemplateImages[k]
        /\ Len(root) = processed_count
        /\ Len(root) =
             Cardinality({ i \in Visited :
                 row_step(program, env, df[i], i - 1, 0).kind = "converted" })
        /\ \A n \in 1..Len(root) :
             \E i \in Visited :
                /\ root[n] = row_step(program, env, df[i], i - 1, 0).elem
                /\ \A m \in 1..(n - 1) :
                     \E j \in 1..(i - 1) :
                        root[m] = row_step(program, env, df[j], j - 1, 0).elem

\* a written document with one image per manifest row
C20_Witness ==
    /\ Finished
    /\ Len(df) = 2
    /\ processed_count = 2
    /\ Len(root) = 2
    /\ root[1].name = RowImageName(1)
    /\ root[2].name = RowImageName(2)

(***************************************************************************)
(* Properties of one conversion                                            *)
(***************************************************************************)
Returned == conv_out.state = "returned"
Out      == conv_out.elem.polygons

\* the annotation list the call reads
SourceList ==
    LET doc == conv_in.result
        key == coord_key(conv_in.variant, conv_in.difficulty)
    IN  IF HasPayload(doc) /\ PayloadOf(doc).t = "dict"
           /\ lookup(PayloadOf(doc), key).t = "list"
        THEN lookup(PayloadOf(doc), key).items
        ELSE <<>>

\* record j yields at least one point
Yields(j) == annotation_points(SourceList[j]).points # <<>>

\* how many of the first j records yield points: the place of record j
\* among the polygons when it yields points itself
Place(j) == Cardinality({ k \in 1..j : Yields(k) })

\* the transcription with the spaces taken out, as in "h g" -> "hg"
Stripped(j) == SelectSeq(SourceList[j].ocr.s, LAMBDA c : c # " ")

ClaimedEmpty(j) == Stripped(j) = EmptyToken \/ strip(Stripped(j)) = <<>>

\* C8 as stated: in both conversions a retained record whose transcription
\* is "empty", or empty or blank once stripped, is labelled "empty" and has
\* no attribute child; any other transcription is labelled "text" and has
\* one attribute child "text" holding the stripped transcription
C8_TextClassification ==
    Returned =>
        \A j \in 1..Len(SourceList) :
            (Yields(j) /\ SourceList[j].ocr.t = "str") =>
                LET p == Out[Place(j)]
                IN  IF ClaimedEmpty(j)
                    THEN p.label = "empty" /\ p.attribute = <<>>
                    ELSE /\ p.label = "text"
                         /\ Len(p.attribute) = 1
                         /\ p.attribute[1].name = "text"
                         /\ p.attribute[1].text = escape_str(Stripped(j))

\* C9: the z_order values of the polygon children are 0, 1, ..., k-1 in
\* source-list order, k being the number of records that yield points;
\* a record without points gives no polygon and uses no z_order value
C9_ZOrderSequence ==
    Returned =>
        /\ Len(Out) = Place(Len(SourceList))
        /\ \A n \in 1..Len(Out) : Out[n].z_order = ToString(n - 1)
        /\ \A j \in 1..Len(SourceList) :
             Yields(j) =>
                Out[Place(j)].points =
                    join(";", annotation_points(SourceList[j]).points)

\* a retained record after a dropped one
C9_Witness ==
    /\ Returned
    /\ Len(SourceList) >= 2
    /\ ~Yields(1)
    /\ Yields(2)
    /\ Out[1].z_order = "0"

AllCornersPresent(coords) ==
    /\ coords.t = "dict"
    /\ coords.tl.t = "dict" /\ coords.tr.t = "dict"
    /\ coords.br.t = "dict" /\ coords.bl.t = "dict"

\* a left/top/width/height box with strictly positive width and height
PositiveBox(obj) ==
    /\ obj.t = "dict"
    /\ get_num(obj.left).t = "num" /\ get_num(obj.top).t = "num"
    /\ obj.width.t = "num" /\ obj.width.n > 0
    /\ obj.height.t = "num" /\ obj.height.n > 0

\* tl, tr, br, bl synthesized from the box, as the points attribute
Synthesized(obj) ==
    LET l == get_num(obj.left).n
        t == get_num(obj.top).n
        w == obj.width.n
        h == obj.height.n
    IN  fmt4(l) \o "," \o fmt4(t) \o ";"
          \o fmt4(l + w) \o "," \o fmt4(t) \o ";"
          \o fmt4(l + w) \o "," \o fmt4(t + h) \o ";"
          \o fmt4(l) \o "," \o fmt4(t + h)

ExamplePoints ==
    "0.0000,0.0000;10.0000,0.0000;10.0000,20.0000;0.0000,20.0000"

IsBox(j) == SourceList[j].t = "dict" /\ SourceList[j].annotation = "BOX"

\* C10 as stated: a BOX record whose four named corners are not all present
\* and whose box has positive width and height emits the four synthesized
\* corners
C10_BoxWhenCornersIncomplete ==
    Returned =>
        \A j \in 1..Len(SourceList) :
            ( /\ IsBox(j)
              /\ ~AllCornersPresent(SourceList[j].coords)
              /\ PositiveBox(SourceList[j].object) ) =>
                /\ Yields(j)
                /\ Out[Place(j)].points = Synthesized(SourceList[j].object)

\* C10 amended: a BOX record whose coords field is absent, null or empty
\* and whose box has positive width and height emits the four synthesized
\* corners tl, tr, br, bl
C10_BoxWhenCoordsAbsent ==
    Returned =>
        \A j \in 1..Len(SourceList) :
            ( /\ IsBox(j)
              /\ SourceList[j].coords.t \in {"absent", "null", "empty"}
              /\ PositiveBox(SourceList[j].object) ) =>
                /\ Yields(j)
                /\ Out[Place(j)].points = Synthesized(SourceList[j].object)
                /\ SourceList[j].object = TheBox =>
                     Out[Place(j)].points = ExamplePoints

C10_Witness ==
    /\ Returned
    /\ Len(SourceList) = 1
    /\ IsBox(1)
    /\ SourceList[1].coords.t = "absent"
    /\ SourceList[1].object = TheBox
    /\ Out[1].points = ExamplePoints

\* a box that is absent, or whose width or height is a number <= 0 (a
\* missing width or height reads as 0)
NoUsableBox(obj) ==
    \/ obj.t = "absent"
    \/ /\ obj.t = "dict"
       /\ get_num(obj.width).t = "num" /\ get_num(obj.height).t = "num"
       /\ get_num(obj.width).n <= 0 \/ get_num(obj.height).n <= 0

\* a BOX record with neither usable geometry source
NoGeometry(j) ==
    /\ IsBox(j)
    /\ ~AllCornersPresent(SourceList[j].coords)
    /\ NoUsableBox(SourceList[j].object)

\* record j makes the conversion raise, by its geometry or its transcription
RecordRaises(j) ==
    \/ annotation_points(SourceList[j]).raised
    \/ /\ Yields(j)
       /\ classify(conv_in.variant, text_value_of(SourceList[j].ocr)).raised

\* the records other than the BOX records without geometry that yield points
Others(j) == { k \in 1..j : ~NoGeometry(k) /\ Yields(k) }

\* C11: a BOX record without a complete set of named corners and without a
\* box of positive width and height gives no polygon and raises no error;
\* the other records of the image are emitted as if it were not there
C11_NoGeometryDropped ==
    \A j \in 1..Len(SourceList) :
        NoGeometry(j) =>
            /\ conv_out.state = "raised" =>
                 \E k \in 1..Len(SourceList) : k # j /\ RecordRaises(k)
            /\ Returned =>
                 /\ Len(Out) = Cardinality(Others(Len(SourceList)))
                 /\ \A k \in Others(Len(SourceList)) :
                      /\ Out[Cardinality(Others(k))].points =
                           join(";", annotation_points(SourceList[k]).points)
                      /\ Out[Cardinality(Others(k))].z_order =
                           ToString(Cardinality(Others(k)) - 1)

\* a box without positive width followed by a record that is emitted
C11_Witness ==
    /\ Returned
    /\ Len(SourceList) = 2
    /\ NoGeometry(1)
    /\ SourceList[1].object.t = "dict"
    /\ Yields(2)
    /\ Len(Out) = 1
    /\ Out[1].z_order = "0"

\* the four named corners tl, tr, br, bl as the points attribute
NamedCorners(coords) ==
    fmt4(coords.tl.x.n) \o "," \o fmt4(coords.tl.y.n) \o ";"
      \o fmt4(coords.tr.x.n) \o "," \o fmt4(coords.tr.y.n) \o ";"
      \o fmt4(coords.br.x.n) \o "," \o fmt4(coords.br.y.n) \o ";"
      \o fmt4(coords.bl.x.n) \o "," \o fmt4(coords.bl.y.n)

FullCornerPoints ==
    "1.0000,1.0000;5.5000,1.0000;5.5000,3.0000;1.0000,3.0000"

\* C12: a BOX record that has the four named corners and a box emits the
\* named corners in the order tl, tr, br, bl, whatever the box holds
C12_CornerPrecedence ==
    /\ \A j \in 1..Len(SourceList) :
         ( /\ IsBox(j)
           /\ AllCornersPresent(SourceList[j].coords)
           /\ SourceList[j].object.t = "dict" ) =>
             /\ ~RecordRaises(j)
             /\ Returned =>
                  /\ Yields(j)
                  /\ Out[Place(j)].points = NamedCorners(SourceList[j].coords)
                  /\ SourceList[j].coords = FullCorners =>
                       Out[Place(j)].points = FullCornerPoints

\* named corners next to a box that would give other points
C12_Witness ==
    /\ Returned
    /\ Len(SourceList) = 1
    /\ IsBox(1)
    /\ SourceList[1].coords = SkewCorners
    /\ SourceList[1].object = TheBox
    /\ Out[1].points = NamedCorners(SkewCorners)
    /\ Out[1].points # ExamplePoints

IsPolygon(j) ==
    /\ SourceList[j].t = "dict"
    /\ SourceList[j].annotation = "POLYGONS"
    /\ SourceList[j].points.t = "list"
    /\ SourceList[j].points.items # <<>>

\* every point is an object whose x and y are numbers or left out
NumericPoints(ps) ==
    \A k \in 1..Len(ps) :
        /\ ps[k].t = "dict"
        /\ ps[k].x.t \in {"num", "absent"}
        /\ ps[k].y.t \in {"num", "absent"}

\* one "x,y" pair per source point, at the source point's position
PairPerPoint(ps) ==
    [k \in 1..Len(ps) |->
        fmt4(IF ps[k].x.t = "num" THEN ps[k].x.n ELSE 0) \o ","
          \o fmt4(IF ps[k].y.t = "num" THEN ps[k].y.n ELSE 0)]

RepeatedPoints == <<P(20, 20), P(10, 10), P(20, 20)>>

\* C13: a POLYGONS record with a non-empty point list emits one x,y pair
\* per source point in the order of the source, neither sorted nor
\* deduplicated
C13_PolygonOrderPreserved ==
    Returned =>
        \A j \in 1..Len(SourceList) :
            (IsPolygon(j) /\ NumericPoints(SourceList[j].points.items)) =>
                /\ Yields(j)
                /\ Out[Place(j)].points =
                     join(";", PairPerPoint(SourceList[j].points.items))
                /\ SourceList[j].points.items = RepeatedPoints =>
                     Out[Place(j)].points =
                        "2.0000,2.0000;1.0000,1.0000;2.0000,2.0000"

\* a point list that is not sorted and holds one point twice
C13_Witness ==
    /\ Returned
    /\ \E j \in 1..Len(SourceList) :
         /\ IsPolygon(j)
         /\ SourceList[j].points.items = RepeatedPoints
         /\ Out[Place(j)].points =
              "2.0000,2.0000;1.0000,1.0000;2.0000,2.0000"

(***************************************************************************)
(* Properties of the output formatter                                      *)
(***************************************************************************)
\* a line that is one self-closing tag: <name ... />
IsSelfClosingTag(line) ==
    /\ Len(line) >= 4
    /\ line[1] = "<"
    /\ line[2] \notin {"?", "!", "/", " ", "\t"}
    /\ line[Len(line) - 1] = "/"
    /\ line[Len(line)] = ">"
    /\ \A k \in 2..(Len(line) - 1) : line[k] \notin {"<", ">"}

\* the tag name: the characters up to the first space or slash
TagName(line) ==
    LET stop == CHOOSE k \in 2..Len(line) :
                    /\ line[k] \in {" ", "/"}
                    /\ \A m \in 2..(k - 1) : line[m] \notin {" ", "/"}
    IN  SubSeq(line, 2, stop - 1)

\* what the claim says a line becomes: the strict form <tag attrs/> becomes
\* <tag attrs></tag>, the form with a space before the slash stays
FixedAsClaimed(line) ==
    IF IsSelfClosingTag(line) /\ line[Len(line) - 2] # " "
    THEN SubSeq(line, 1, Len(line) - 2) \o <<">", "<", "/">>
           \o TagName(line) \o <<">">>
    ELSE line

AfterFix == fmt_out.pass \in {1, 3}

\* C14 as stated: fix_empty_tags rewrites <tag attr="x"/> to
\* <tag attr="x"></tag> for every tag name and attribute text and leaves
\* <tag attr="x" />, with a space before the slash, untouched
C14_SelfClosingException ==
    AfterFix =>
        split(fmt_out.text) =
            [k \in 1..Len(split(fmt_out.prev)) |->
                FixedAsClaimed(split(fmt_out.prev)[k])]

IsBlank(line) == \A k \in 1..Len(line) : line[k] \in Whitespace

\* the lines whose index satisfies Keep, in their order
Pick(lines, Keep(_)) ==
    LET upto[i \in 0..Len(lines)] ==
          IF i = 0 THEN <<>>
          ELSE IF Keep(i) THEN Append(upto[i - 1], lines[i])
          ELSE upto[i - 1]
    IN  upto[Len(lines)]

\* a line that begins with an opening tag or is the XML declaration
IsOpeningTagOrDeclaration(line) ==
    LET l == lstrip(line)
    IN  /\ Len(l) >= 2
        /\ l[1] = "<"
        /\ l[2] \notin {"/", "!"}

\* a line that begins with "<" and is not a comment
IsMarkup(line) ==
    LET l == lstrip(line)
    IN  /\ Len(l) >= 1
        /\ l[1] = "<"
        /\ ~(Len(l) >= 4 /\ l[2] = "!" /\ l[3] = "-" /\ l[4] = "-")

AfterClean == fmt_out.pass \in {2, 4}
LinesIn    == split(fmt_out.prev)
LinesOut   == split(fmt_out.text)

\* C15 as stated: remove_empty_lines removes a blank line exactly when it
\* follows a blank line or a line that is an opening tag or the XML
\* declaration; the first line and every non-blank line are kept, in order
C15_BlankAfterOpeningTag ==
    AfterClean =>
        LinesOut =
            Pick(LinesIn,
                 LAMBDA i : \/ i = 1
                            \/ ~IsBlank(LinesIn[i])
                            \/ ~(\/ IsBlank(LinesIn[i - 1])
                                 \/ IsOpeningTagOrDeclaration(LinesIn[i - 1])))

\* C15 amended: remove_empty_lines removes a blank line exactly when the
\* line before it is blank or begins, after its indentation, with "<" and
\* is not a comment: an opening tag, a closing tag, a declaration; the first
\* line and every non-blank line are kept, unchanged and in order
C15_BlankAfterMarkup ==
    AfterClean =>
        LinesOut =
            Pick(LinesIn,
                 LAMBDA i : \/ i = 1
                            \/ ~IsBlank(LinesIn[i])
                            \/ ~(\/ IsBlank(LinesIn[i - 1])
                                 \/ IsMarkup(LinesIn[i - 1])))

\* a blank line after a closing tag is removed
C15_Witness ==
    /\ fmt_out.pass = 2
    /\ LinesIn = <<CloseLine, BlankLine, TextLine>>
    /\ LinesOut = <<CloseLine, TextLine>>

\* C16: the two passes applied to their own output change nothing: the
\* second fix_empty_tags collapses no tag, the second remove_empty_lines
\* removes no line, and the text equals the first output
C16_IdempotentFormatting ==
    /\ fmt_out.pass = 3 => fmt_out.text = fmt_out.prev
    /\ fmt_out.pass = 4 =>
         /\ fmt_out.text = fmt_out.prev
         /\ fmt_out.text = fmt_out.first

\* a text that the first application changed in both passes
C16_Witness ==
    /\ fmt_out.pass = 4
    /\ split(fmt_in) = <<OpenLine, BlankLine, SelfClosingAttr>>
    /\ fmt_out.first = join_lines(<<OpenLine,
                          <<"<", "a", " ", "b", "=", "'", "x", "'", ">",
                            "<", "/", "a", ">">> >>)
    /\ fmt_out.text = fmt_out.first

(***************************************************************************)
(* Properties of add_timezone_to_datetime                                  *)
(***************************************************************************)
TzReturned == tz_out.state = "returned"

NonString(j) == SourceList[j].ocr.t # "str"

\* nothing but a transcription can make this call raise
OnlyTextCanRaise ==
    /\ ~image_dims(conv_in.source).raised
    /\ \A k \in 1..Len(SourceList) : ~annotation_points(SourceList[k]).raised

\* C21 as stated: in both conversions a retained record whose transcription
\* is not a string (absent key, null, number, list) is labelled "empty" and
\* has no attribute child, and the conversion of the image does not fail
C21_NonStringIsEmpty ==
    (conv_out.state # "pending" /\ OnlyTextCanRaise) =>
        \A j \in 1..Len(SourceList) :
            (Yields(j) /\ NonString(j)) =>
                /\ Returned
                /\ Out[Place(j)].label = "empty"
                /\ Out[Place(j)].attribute = <<>>

\* the characters of the attribute texts of the returned element
EmittedChars ==
    UNION { UNION { { p.attribute[a].text[c] :
                        c \in 1..Len(p.attribute[a].text) } :
                    a \in 1..Len(p.attribute) } :
            p \in { Out[k] : k \in 1..Len(Out) } }

\* C22 as stated: every whitespace character of a string transcription
\* (space, tab, newline, at any position) is removed before the text is
\* emitted, so no emitted attribute text contains a whitespace character
C22_NoWhitespaceEmitted ==
    Returned => EmittedChars \cap Whitespace = {}

(***************************************************************************)
(* Properties of the image dimensions                                      *)
(***************************************************************************)
\* the convertedImageInfo of the first image when all of the path to it is
\* well-formed, InfoAbsent otherwise
InfoOf(src) ==
    IF /\ src.images.t = "list" /\ src.images.items # <<>>
       /\ src.images.items[1].t = "dict"
       /\ src.images.items[1].info.t = "dict"
    THEN src.images.items[1].info
    ELSE InfoAbsent

\* the images array, the first image's convertedImageInfo, or a width or
\* height value is absent or malformed
DimensionsUnusable(src) ==
    /\ src.t \in {"dict", "empty"}
    /\ \/ InfoOf(src).t # "dict"
       \/ ~IsNumber(InfoOf(src).width)
       \/ ~IsNumber(InfoOf(src).height)

\* a dimension as claimed: the number when there is one, 0 otherwise
DimensionAsClaimed(v) == IF IsNumber(v) THEN ToString(v.n) ELSE "0"

\* C23 as stated: when the images array, its first element's
\* convertedImageInfo, or the width or height value of the Source Document
\* is absent or malformed, the image element is still emitted, with 0 for
\* the width and the height that cannot be read
C23_DimensionsDefaultToZero ==
    (/\ conv_out.state # "pending"
     /\ DimensionsUnusable(conv_in.source)
     /\ ~image_polygons(conv_in.variant, conv_in.result,
                        conv_in.difficulty).raised) =>
        /\ Returned
        /\ conv_out.elem.width = DimensionAsClaimed(InfoOf(conv_in.source).width)
        /\ conv_out.elem.height =
             DimensionAsClaimed(InfoOf(conv_in.source).height)

(***************************************************************************)
(* Properties of the Source Document lookup                                *)
(***************************************************************************)
EndsWith(s, suffix) ==
    /\ Len(s) >= Len(suffix)
    /\ SubSeq(s, Len(s) - Len(suffix) + 1, Len(s)) = suffix

\* the resolved file name of row i ends in .jpg or .JPG
HasImageExtension(i) ==
    /\ RowNamed(i)
    /\ EndsWith(RowFilename(i).name, DotJpg)
       \/ EndsWith(RowFilename(i).name, DotJPG)

\* the file name of row i with its extension replaced by .json
JsonNameOf(i) ==
    SubSeq(RowFilename(i).name, 1, Len(RowFilename(i).name) - Len(DotJpg))
      \o DotJson

\* C24 as stated: in both programs, for a resolved file name ending in .jpg
\* or .JPG the Source Document is looked up under the name with that
\* extension replaced by .json: a document that is there under that name is
\* found, and one that is not is recorded under that name
C24_SourceLookupName ==
    (env = GoodEnv /\ LoopStarted) =>
        \A i \in Visited :
            (HasImageExtension(i) /\ df[i].res.t # "absent") =>
                IF df[i].src.t = "absent"
                THEN InList(JsonNameOf(i), missing_files)
                ELSE /\ df[i].json_name = JsonNameOf(i)
                     /\ ~InList(JsonNameOf(i), missing_files)
                     /\ ~InList(RowFilename(i).name, missing_files)

(***************************************************************************)
(* Properties of get_file_name                                             *)
(***************************************************************************)
\* the item's identifier: the part of the stem before the first underscore
Identifier == data_id_of(name_in.stem)

MappingContainsItem ==
    /\ name_in.csv_mapping.t = "dict"
    /\ Identifier \in DOMAIN name_in.csv_mapping.entries

\* the second element of the sources array of the Source Document
SecondSource ==
    IF /\ name_in.json_data.t = "dict"
       /\ name_in.json_data.sources.t = "list"
       /\ Len(name_in.json_data.sources.items) > 1
    THEN name_in.json_data.sources.items[2]
    ELSE TNull

\* the Source Document is not given, or is a JSON object whose sources, if
\* any, is an array
WellFormedData ==
    /\ name_in.json_data.t \in {"none", "empty", "dict"}
    /\ name_in.json_data.sources.t \in {"absent", "list"}

\* C25 as stated: the name is the mapping's value for the item's identifier
\* when the mapping is supplied and contains it; else the second element of
\* the sources array when there is one; else "{identifier}.jpg".  (This
\* call has no raw file_name field, so the second choice of the claim does
\* not arise in it.)
C25_FilenamePriority ==
    (name_out.state # "pending" /\ WellFormedData) =>
        /\ name_out.state = "returned"
        /\ name_out.value =
             IF MappingContainsItem
             THEN name_in.csv_mapping.entries[Identifier]
             ELSE IF SecondSource.t = "str" /\ SecondSource.s # <<>>
             THEN SecondSource
             ELSE Str(Identifier \o DotJpg)

(***************************************************************************)
(* Properties of the difficulty-aware conversion                           *)
(***************************************************************************)
\* the annotation-list key of a tier
TierKey(tag) == IF tag = "jung" THEN "name_RRMP0X" ELSE "name_5OJYEV"

\* the annotation list under the key of the row's own tier, in the Result
\* Document found in the result directory of the row's own tier
TierList(i) ==
    LET doc == df[i].res
    IN  IF /\ HasPayload(doc) /\ PayloadOf(doc).t = "dict"
           /\ lookup(PayloadOf(doc), TierKey(df[i].difficulty)).t = "list"
        THEN lookup(PayloadOf(doc), TierKey(df[i].difficulty)).items
        ELSE <<>>

\* the polygons that an annotation list gives, its text read under ocr
PolygonsOf(list) == annotation_loop("merged", list, 0, <<>>).polygons

\* C26: in the merged program every image element is built from the
\* documents in the directories of its row's own tag and from the
\* annotation list under the key of that tag (name_RRMP0X for "jung",
\* name_5OJYEV for "sang"), whatever the tags of the other rows; the list
\* under the other key is not emitted
C26_TierSelectedPerRow ==
    (program = "merged" /\ env = GoodEnv /\ LoopStarted) =>
        \A n \in 1..Len(root), i \in Visited :
            BuiltFrom(n, i) =>
                /\ df[i].difficulty \in {"jung", "sang"}
                /\ root[n].polygons = PolygonsOf(TierList(i))
                /\ root[n].width = dim_str(image_dims(df[i].src).width)
                /\ root[n].height = dim_str(image_dims(df[i].src).height)

\* a manifest with one row of each tag, both converted, each with the
\* polygons of its own key
C26_Witness ==
    /\ program = "merged"
    /\ pc = "exit" /\ written
    /\ Len(df) = 2 /\ Len(root) = 2
    /\ df[1].difficulty = "jung" /\ df[2].difficulty = "sang"
    /\ df[1].res = df[2].res
    /\ root[1].polygons # <<>> /\ root[2].polygons # <<>>
    /\ root[1].polygons # root[2].polygons

(***************************************************************************)
(* Properties of download_multiple_data                                    *)
(***************************************************************************)
DownloadReturned == download.pc = "returned"

Succeeded == { f \in Files : futures[f] = "ok" }
Failed    == { f \in Files : futures[f] = "failed" }

\* C27: under every interleaving of the workers, with at most max_workers
\* downloads in flight, no file is attempted twice; on return every
\* filtered file has been attempted exactly once, whether other downloads
\* failed or not, and success_count and failure_count count the downloads
\* that succeeded and failed, so that their sum is the number of files
C27_EveryFileCountedOnce ==
    /\ Cardinality(Running) <= max_workers
    /\ \A f \in Files : attempts[f] <= 1
    /\ DownloadReturned =>
         /\ \A f \in Files : attempts[f] = 1
         /\ download.success_count = Cardinality(Succeeded)
         /\ download.failure_count = Cardinality(Failed)
         /\ download.success_count + download.failure_count =
              Len(filtered_files)

\* more files than workers, a download that failed and one that succeeded
C27_Witness ==
    /\ DownloadReturned
    /\ Len(filtered_files) > max_workers
    /\ download.failure_count >= 1
    /\ download.success_count >= 1
    /\ futures[1] = "failed"

(***************************************************************************)
(* Accounting of the row loop                                              *)
(***************************************************************************)
\* row i has neither its Result Document nor its Source Document
LacksBoth(i) ==
    /\ RowNamed(i)
    /\ df[i].res.t = "absent"
    /\ df[i].src.t = "absent"

\* f"{data_idx}_result", with the tag appended in the merged program
ResultEntryOf(i) ==
    digits(df[i].data_idx) \o <<"_", "r", "e", "s", "u", "l", "t">>
      \o (IF program = "merged" THEN <<"_", df[i].difficulty>> ELSE <<>>)

\* the entries of missing_files that name row i: its result entry, or a
\* Source Document name made from its image name
EntriesOf(i) ==
    { k \in 1..Len(missing_files) :
        \/ missing_files[k] = ResultEntryOf(i)
        \/ missing_files[k] = ImageName(i, DotJson)
        \/ missing_files[k] = ImageName(i, DotJpg)
        \/ missing_files[k] = ImageName(i, DotJPG) }

Accounted ==
    /\ processed_count + Len(missing_files) <= idx
    /\ processed_count = Len(root)
    /\ \A i \in Visited :
         LacksBoth(i) =>
            \E k \in 1..Len(missing_files) :
                /\ EntriesOf(i) = {k}
                /\ missing_files[k] = ResultEntryOf(i)

\* what one step of the loop may do to the two tallies
RowAccounting ==
    /\ processed_count' \in {processed_count, processed_count + 1}
    /\ \/ missing_files' = missing_files
       \/ /\ Len(missing_files') = Len(missing_files) + 1
          /\ SubSeq(missing_files', 1, Len(missing_files)) = missing_files
    /\ ~(processed_count' # processed_count /\ missing_files' # missing_files)
    /\ (processed_count' # processed_count \/ missing_files' # missing_files)
         => idx' = idx + 1

\* C28: processed_count + len(missing_files) never exceeds the number of
\* rows visited; a row adds at most one entry to missing_files and never
\* both counts as processed and adds an entry; a row that lacks both its
\* documents is recorded once, under its result entry
C28_LoopAccounting == []Accounted /\ [][RowAccounting]_vars

\* a row lacking both documents and a converted row
C28_Witness ==
    /\ Finished
    /\ Len(df) = 2
    /\ LacksBoth(1)
    /\ processed_count = 1
    /\ missing_files = <<ResultEntryOf(1)>>

(***************************************************************************)
(* Properties of the pipeline runner                                       *)
(***************************************************************************)
\* the scripts that fail when run: missing, non-zero exit or exception
Failing == { i \in 1..Len(scripts) : scripts[i] # "ok" }

\* some script was run and failed: the first failing one was reached
FirstFailing == CHOOSE i \in Failing : \A j \in Failing : i <= j

PipelineReturned == pipeline.pc = "returned"

\* C29: the scripts are started in list order, each after the one before
\* it returned 0; after the first script that fails none is started; the
\* counters satisfy failure_count <= 1 and success_count + failure_count
\* <= number of scripts; main returns 1 exactly when a script failed and 0
\* exactly when all scripts ran and succeeded
C29_SequentialFailFast ==
    /\ \A k \in 1..Len(started) :
         /\ started[k] = k
         /\ k > 1 => scripts[k - 1] = "ok"
         /\ Failing # {} => k <= FirstFailing
    /\ pipeline.failure_count <= 1
    /\ pipeline.success_count + pipeline.failure_count <= Len(scripts)
    /\ PipelineReturned =>
         /\ pipeline.status \in {0, 1}
         /\ pipeline.status = 1 <=> Failing # {}
         /\ pipeline.status = 1 <=> pipeline.failure_count = 1
         /\ pipeline.status = 0 <=>
              /\ pipeline.success_count = Len(scripts)
              /\ Len(started) = Len(scripts)
              /\ Failing = {}

\* two scripts succeed, the third fails, the rest are never started
C29_Witness ==
    /\ PipelineReturned
    /\ Len(scripts) = 5
    /\ started = <<1, 2, 3>>
    /\ scripts[3] = "nonzero"
    /\ scripts[4] = "ok"
    /\ pipeline.status = 1
    /\ pipeline.success_count = 2
    /\ pipeline.failure_count = 1

(***************************************************************************)
(* Properties of download_and_map_source_data                              *)
(***************************************************************************)
\* C30 as stated: for a fixed list of matching source files the file_name
\* written to each manifest row is the same whatever the interleaving of
\* the workers, also when several files share a src_idx: two calls on the
\* same files give the same column
C30_MappingDeterministic ==
    mapper.pc = "mapped" => mapper.file_name = mapper.first

====
